---- MODULE Spec2Model ----
(***************************************************************************)
(* A model of object-diff: diff(objectA, objectB, options) and the helpers *)
(* it is built from (comparePrimitives, coerceValues, compareArrays,       *)
(* shouldIgnoreProperty, isPlainObject).                                   *)
(*                                                                         *)
(* JavaScript values are records tagged by t.  A string is a sequence of   *)
(* one-character strings, so that Number(s), toLowerCase, the default sort *)
(* order, path joining and glob matching are computed character by         *)
(* character.  Values with reference identity (plain objects, arrays,      *)
(* dates) carry a field ref naming the allocation they come from: two such *)
(* values are the same JavaScript object iff they are equal as records.    *)
(***************************************************************************)
EXTENDS Integers, Sequences, FiniteSets, TLC

(***************************************************************************)
(* Characters, in UTF-16 code unit order.                                  *)
(***************************************************************************)
Chars ==
  << " ", "*", "+", "-", ".",
     "0", "1", "2", "3", "4", "5", "6", "7", "8", "9",
     "E", "F", "O", "R", "T", "U", "_",
     "a", "b", "c", "d", "e", "f", "i", "l", "n", "r", "s", "t", "u", "v", "x" >>

CodeUnit(c) == CHOOSE i \in 1..Len(Chars) : Chars[i] = c

Digits == {"0", "1", "2", "3", "4", "5", "6", "7", "8", "9"}

DigitValue(c) == CodeUnit(c) - CodeUnit("0")

DigitChar(d) == Chars[CodeUnit("0") + d]

\* String.prototype.toLowerCase on one character
LowerChar(c) ==
  CASE c = "E" -> "e" [] c = "F" -> "f" [] c = "O" -> "o"
    [] c = "R" -> "r" [] c = "T" -> "t" [] c = "U" -> "u"
    [] OTHER -> c

toLowerCase(s) == [i \in 1..Len(s) |-> LowerChar(s[i])]

RECURSIVE TrimLeft(_)
TrimLeft(s) == IF s = <<>> \/ Head(s) # " " THEN s ELSE TrimLeft(Tail(s))

RECURSIVE TrimRight(_)
TrimRight(s) ==
  IF s = <<>> \/ s[Len(s)] # " " THEN s ELSE TrimRight(SubSeq(s, 1, Len(s) - 1))

Trim(s) == TrimRight(TrimLeft(s))

\* the value of a non-empty run of decimal digits
RECURSIVE DigitsValue(_)
DigitsValue(s) ==
  IF s = <<>> THEN 0
  ELSE 10 * DigitsValue(SubSeq(s, 1, Len(s) - 1)) + DigitValue(s[Len(s)])

AllDigits(s) == \A i \in 1..Len(s) : s[i] \in Digits

NaN == [nan |-> TRUE]

Finite(n) == [nan |-> FALSE, n |-> n]

isNaN(x) == x.nan

(***************************************************************************)
(* Number(s) for a string s: white space is trimmed, the empty string is   *)
(* 0, then an optional sign and a decimal literal.  The literals covered   *)
(* are integers with an optional all-zero fraction ("30", "-1", "30.",     *)
(* "30.0"); every other string of the model's pool is not a numeric        *)
(* literal and gives NaN.                                                  *)
(***************************************************************************)
UnsignedToNumber(s) ==
  LET dot == IF \E i \in 1..Len(s) : s[i] = "."
             THEN CHOOSE i \in 1..Len(s) : s[i] = "." /\ \A j \in 1..(i - 1) : s[j] # "."
             ELSE Len(s) + 1
      int == SubSeq(s, 1, dot - 1)
      frac == SubSeq(s, dot + 1, Len(s))
  IN  IF int # <<>> /\ AllDigits(int) /\ \A i \in 1..Len(frac) : frac[i] = "0"
      THEN Finite(DigitsValue(int))
      ELSE NaN

StringToNumber(s) ==
  LET t == Trim(s) IN
  IF t = <<>> THEN Finite(0)
  ELSE IF Head(t) = "-"
       THEN LET u == UnsignedToNumber(Tail(t)) IN IF isNaN(u) THEN NaN ELSE Finite(0 - u.n)
       ELSE IF Head(t) = "+" THEN UnsignedToNumber(Tail(t))
       ELSE UnsignedToNumber(t)

\* String(n) for an integer n
RECURSIVE NatToString(_)
NatToString(n) ==
  IF n < 10 THEN <<DigitChar(n)>> ELSE Append(NatToString(n \div 10), DigitChar(n % 10))

NumberToString(n) == IF n < 0 THEN <<"-">> \o NatToString(0 - n) ELSE NatToString(n)

(***************************************************************************)
(* new Date(s).getTime() for a string s.  The model's dates are month      *)
(* starts and time counts months, an order-preserving image of the         *)
(* milliseconds of getTime().  The date strings covered are the ISO forms  *)
(* YYYY and YYYY-MM; any other string of the pool is an invalid date.      *)
(***************************************************************************)
DateParse(s) ==
  IF Len(s) = 4 /\ AllDigits(s)
  THEN Finite(12 * DigitsValue(s))
  ELSE IF /\ Len(s) = 7
          /\ AllDigits(SubSeq(s, 1, 4))
          /\ s[5] = "-"
          /\ AllDigits(SubSeq(s, 6, 7))
          /\ DigitsValue(SubSeq(s, 6, 7)) \in 1..12
       THEN Finite(12 * DigitsValue(SubSeq(s, 1, 4)) + DigitsValue(SubSeq(s, 6, 7)) - 1)
       ELSE NaN

(***************************************************************************)
(* Values                                                                  *)
(***************************************************************************)
Null == [t |-> "null"]

Undefined == [t |-> "undefined"]

Num(n) == [t |-> "number", n |-> n]

Str(s) == [t |-> "string", s |-> s]

Bool(b) == [t |-> "boolean", b |-> b]

DateOf(time, ref) == [t |-> "date", time |-> time, ref |-> ref]

Arr(items, ref) == [t |-> "array", items |-> items, ref |-> ref]

Obj(fields, ref) == [t |-> "object", fields |-> fields, ref |-> ref]

\* a method inherited from Object.prototype
Fn(name) == [t |-> "function", name |-> name]

\* typeof v
TypeOf(v) == IF v.t \in {"null", "date", "array", "object"} THEN "object" ELSE v.t

\* v == null
IsNullish(v) == v.t \in {"null", "undefined"}

\* Array.isArray(v)
IsArray(v) == v.t = "array"

\* a === b
StrictEquals(a, b) ==
  /\ a.t = b.t
  /\ CASE a.t = "number" -> a.n = b.n
       [] a.t = "string" -> a.s = b.s
       [] a.t = "boolean" -> a.b = b.b
       [] a.t \in {"null", "undefined"} -> TRUE
       [] OTHER -> a = b

isPlainObject(value) == value.t = "object"

(***************************************************************************)
(* coerceValues                                                            *)
(***************************************************************************)
\* coerceValues without its string-then-number branch
coerceValuesOneWay(valueA, valueB) ==
  LET Result(ca, cb, eq) == [coercedA |-> ca, coercedB |-> cb, areEqual |-> eq]
      tA == TypeOf(valueA)
      tB == TypeOf(valueB)
      numB == StringToNumber(valueB.s)
  IN
  IF IsNullish(valueA) /\ IsNullish(valueB) THEN Result(valueA, valueB, TRUE)
  ELSE IF IsNullish(valueA) \/ IsNullish(valueB) THEN Result(valueA, valueB, FALSE)
  ELSE IF tA = tB THEN Result(valueA, valueB, StrictEquals(valueA, valueB))
  ELSE IF tA = "number" /\ tB = "string" /\ ~isNaN(numB)
    THEN Result(valueA, Num(numB.n), valueA.n = numB.n)
  ELSE Result(valueA, valueB, FALSE)

coerceValues(valueA, valueB) ==
  LET Result(ca, cb, eq) == [coercedA |-> ca, coercedB |-> cb, areEqual |-> eq]
      tA == TypeOf(valueA)
      tB == TypeOf(valueB)
      numB == StringToNumber(valueB.s)
      numA == StringToNumber(valueA.s)
      lowB == toLowerCase(valueB.s)
      lowA == toLowerCase(valueA.s)
      dateB == DateParse(valueB.s)
      dateA == DateParse(valueA.s)
      True == <<"t", "r", "u", "e">>
      False == <<"f", "a", "l", "s", "e">>
      bit(v) == IF v.b THEN 1 ELSE 0
  IN
  IF IsNullish(valueA) /\ IsNullish(valueB) THEN Result(valueA, valueB, TRUE)
  ELSE IF IsNullish(valueA) \/ IsNullish(valueB) THEN Result(valueA, valueB, FALSE)
  ELSE IF tA = tB THEN Result(valueA, valueB, StrictEquals(valueA, valueB))
  ELSE IF tA = "number" /\ tB = "string" /\ ~isNaN(numB)
    THEN Result(valueA, Num(numB.n), valueA.n = numB.n)
  ELSE IF tA = "string" /\ tB = "number" /\ ~isNaN(numA)
    THEN Result(Num(numA.n), valueB, numA.n = valueB.n)
  ELSE IF tA = "boolean" /\ tB = "string" /\ lowB \in {True, False}
    THEN Result(valueA, Bool(lowB = True), valueA.b = (lowB = True))
  ELSE IF tA = "string" /\ tB = "boolean" /\ lowA \in {True, False}
    THEN Result(Bool(lowA = True), valueB, (lowA = True) = valueB.b)
  ELSE IF valueA.t = "date" /\ tB = "string" /\ ~isNaN(dateB)
    THEN Result(valueA, DateOf(dateB.n, "coerced"), valueA.time = dateB.n)
  ELSE IF tA = "string" /\ valueB.t = "date" /\ ~isNaN(dateA)
    THEN Result(DateOf(dateA.n, "coerced"), valueB, dateA.n = valueB.time)
  ELSE IF tA = "number" /\ tB = "boolean"
    THEN Result(valueA, Num(bit(valueB)), valueA.n = bit(valueB))
  ELSE IF tA = "boolean" /\ tB = "number"
    THEN Result(Num(bit(valueA)), valueB, bit(valueA) = valueB.n)
  ELSE Result(valueA, valueB, FALSE)

\* comparePrimitives without its coercion step
comparePrimitivesStrict(valueA, valueB, enableTypeCoercion) == StrictEquals(valueA, valueB)

(***************************************************************************)
(* comparePrimitives                                                       *)
(***************************************************************************)
\* comparePrimitives that coerces whatever the flag says
comparePrimitivesAlwaysCoerce(valueA, valueB, enableTypeCoercion) ==
  IF StrictEquals(valueA, valueB) THEN TRUE
  ELSE coerceValues(valueA, valueB).areEqual

comparePrimitives(valueA, valueB, enableTypeCoercion) ==
  IF StrictEquals(valueA, valueB) THEN TRUE
  ELSE IF ~enableTypeCoercion THEN FALSE
  ELSE coerceValues(valueA, valueB).areEqual

(***************************************************************************)
(* shouldIgnoreProperty                                                    *)
(***************************************************************************)
\* the characters .replace(/[.+?^${}()|[\]\\]/g, '\\$&') escapes
RegExpMeta == {".", "+", "?", "^", "$", "{", "}", "(", ")", "|", "[", "]", "\\"}

\* s.replace(/[.+?^${}()|[\]\\]/g, '\\$&')
RECURSIVE EscapeRegExp(_)
EscapeRegExp(s) ==
  IF s = <<>> THEN <<>>
  ELSE (IF Head(s) \in RegExpMeta THEN <<"\\", Head(s)>> ELSE <<Head(s)>>)
         \o EscapeRegExp(Tail(s))

\* s.replace(/\*/g, '.*')
RECURSIVE ReplaceStar(_)
ReplaceStar(s) ==
  IF s = <<>> THEN <<>>
  ELSE (IF Head(s) = "*" THEN <<".", "*">> ELSE <<Head(s)>>) \o ReplaceStar(Tail(s))

(***************************************************************************)
(* new RegExp('^' + source + '$').test(s), for a source made of escaped    *)
(* characters (\c), the wildcard ., literal characters, and atoms followed *)
(* by *.  The wildcard matches every character but a line terminator, and  *)
(* the model's characters hold none.                                       *)
(***************************************************************************)
RECURSIVE RegExpMatch(_, _)
RegExpMatch(r, s) ==
  IF r = <<>> THEN s = <<>>
  ELSE
    LET escaped == Head(r) = "\\" /\ Len(r) >= 2
        atomLen == IF escaped THEN 2 ELSE 1
        rest == SubSeq(r, atomLen + 1, Len(r))
        AtomMatches(c) ==
          IF escaped THEN c = r[2] ELSE IF Head(r) = "." THEN TRUE ELSE c = Head(r)
        starred == rest # <<>> /\ Head(rest) = "*"
    IN  IF starred
        THEN \/ RegExpMatch(Tail(rest), s)
             \/ s # <<>> /\ AtomMatches(Head(s)) /\ RegExpMatch(r, Tail(s))
        ELSE s # <<>> /\ AtomMatches(Head(s)) /\ RegExpMatch(rest, Tail(s))

Includes(s, c) == \E i \in 1..Len(s) : s[i] = c

\* propertyPath.startsWith(prefix)
StartsWith(s, prefix) == Len(s) >= Len(prefix) /\ SubSeq(s, 1, Len(prefix)) = prefix

WildcardSource(ignorePath) == ReplaceStar(EscapeRegExp(ignorePath))

\* a name without * or . matching the key of that name at any level
MatchesIgnorePathAnyLevel(ignorePath, propertyPath) ==
  IF ignorePath = propertyPath THEN TRUE
  ELSE IF Includes(ignorePath, "*")
    THEN RegExpMatch(WildcardSource(ignorePath), propertyPath)
  ELSE IF Includes(ignorePath, ".")
    THEN StartsWith(propertyPath, ignorePath \o <<".">>)
  ELSE \/ propertyPath = ignorePath
       \/ /\ Len(propertyPath) > Len(ignorePath)
          /\ SubSeq(propertyPath, Len(propertyPath) - Len(ignorePath), Len(propertyPath))
               = <<".">> \o ignorePath

MatchesIgnorePath(ignorePath, propertyPath) ==
  IF ignorePath = propertyPath THEN TRUE
  ELSE IF Includes(ignorePath, "*")
    THEN RegExpMatch(WildcardSource(ignorePath), propertyPath)
  ELSE IF Includes(ignorePath, ".")
    THEN StartsWith(propertyPath, ignorePath \o <<".">>)
  ELSE propertyPath = ignorePath

shouldIgnoreProperty(propertyPath, ignoreProperties) ==
  IF Len(ignoreProperties) = 0 THEN FALSE
  ELSE \E i \in 1..Len(ignoreProperties) :
         MatchesIgnorePath(ignoreProperties[i], propertyPath)

\* path.join('.')
RECURSIVE Join(_)
Join(path) ==
  IF path = <<>> THEN <<>>
  ELSE IF Len(path) = 1 THEN path[1]
  ELSE path[1] \o <<".">> \o Join(Tail(path))

(***************************************************************************)
(* Array.prototype.sort() with no comparator: undefined goes last, the     *)
(* other elements are ordered by their strings, code unit by code unit;    *)
(* the sort is stable.                                                     *)
(***************************************************************************)
\* String(v) for a primitive v
StringOf(v) ==
  CASE v.t = "number" -> NumberToString(v.n)
    [] v.t = "string" -> v.s
    [] v.t = "boolean" -> IF v.b THEN <<"t", "r", "u", "e">> ELSE <<"f", "a", "l", "s", "e">>
    [] v.t = "null" -> <<"n", "u", "l", "l">>

RECURSIVE StringLess(_, _)
StringLess(s, u) ==
  IF u = <<>> THEN FALSE
  ELSE IF s = <<>> THEN TRUE
  ELSE IF Head(s) = Head(u) THEN StringLess(Tail(s), Tail(u))
  ELSE CodeUnit(Head(s)) < CodeUnit(Head(u))

\* x sorts strictly before y
SortBefore(x, y) ==
  IF x.t = "undefined" THEN FALSE
  ELSE IF y.t = "undefined" THEN TRUE
  ELSE StringLess(StringOf(x), StringOf(y))

\* x put into the sorted sequence after every element that does not sort after it
RECURSIVE SortInsert(_, _)
SortInsert(sorted, x) ==
  IF sorted = <<>> THEN <<x>>
  ELSE IF SortBefore(x, sorted[Len(sorted)])
    THEN Append(SortInsert(SubSeq(sorted, 1, Len(sorted) - 1), x), sorted[Len(sorted)])
  ELSE Append(sorted, x)

RECURSIVE Sort(_)
Sort(items) ==
  IF items = <<>> THEN <<>>
  ELSE SortInsert(Sort(SubSeq(items, 1, Len(items) - 1)), items[Len(items)])

(***************************************************************************)
(* Results.  Each of additions, deletions and updates holds a slot: a map  *)
(* from keys to slots (a JavaScript object the diff builds), an input      *)
(* value stored whole, or a {from, to} pair.                               *)
(***************************************************************************)
MapOf(m) == [k |-> "map", m |-> m]

Whole(v) == [k |-> "value", v |-> v]

FromTo(a, b) == [k |-> "fromto", from |-> a, to |-> b]

EmptyMap == MapOf(<<>>)

EmptyResult == [additions |-> EmptyMap, deletions |-> EmptyMap, updates |-> EmptyMap]

\* Object.keys(x).length for a slot x
ObjectKeysLength(x) ==
  CASE x.k = "map" -> Cardinality(DOMAIN x.m)
    [] x.k = "fromto" -> 2
    [] x.k = "value" /\ x.v.t = "object" -> Cardinality(DOMAIN x.v.fields)
    [] x.k = "value" /\ x.v.t = "array" -> Len(x.v.items)
    [] x.k = "value" /\ x.v.t = "string" -> Len(x.v.s)
    [] x.k = "value" /\ x.v.t \in {"number", "boolean", "date", "function"} -> 0

(***************************************************************************)
(* Property lookup on a plain object: own fields first, then the members   *)
(* every plain object inherits from Object.prototype.                      *)
(***************************************************************************)
ObjectPrototypeKeys ==
  { <<"v", "a", "l", "u", "e", "O", "f">>,
    <<"t", "o", "S", "t", "r", "i", "n", "g">>,
    <<"c", "o", "n", "s", "t", "r", "u", "c", "t", "o", "r">> }

\* Object.keys(obj)
ObjectKeys(obj) == DOMAIN obj.fields

\* key in obj
HasProperty(key, obj) == key \in DOMAIN obj.fields \/ key \in ObjectPrototypeKeys

\* obj[key]
Get(obj, key) ==
  IF key \in DOMAIN obj.fields THEN obj.fields[key]
  ELSE IF key \in ObjectPrototypeKeys THEN Fn(key)
  ELSE Undefined

(***************************************************************************)
(* DEFAULT_OPTIONS and the merge { ...DEFAULT_OPTIONS, ...options }: the   *)
(* caller's options are a record of the options it gives.                  *)
(***************************************************************************)
DEFAULT_OPTIONS ==
  [ ignoreProperties |-> <<>>,
    enableTypeCoercion |-> TRUE,
    arrayOrderMatters |-> TRUE,
    maxDepth |-> 10 ]

MergeOptions(options) ==
  [ name \in DOMAIN DEFAULT_OPTIONS |->
      IF name \in DOMAIN options THEN options[name] ELSE DEFAULT_OPTIONS[name] ]

(***************************************************************************)
(* internalDiff, compareObjects, compareArrays                             *)
(***************************************************************************)
RECURSIVE internalDiff(_, _, _)
RECURSIVE compareObjects(_, _, _)
RECURSIVE compareArrays(_, _, _)

\* typeof item !== 'object' || item === null
NotObjectOrNull(item) == TypeOf(item) # "object" \/ item.t = "null"

\* sorting with no copy made: the array itself
SpreadCopyAlias(array) == array

\* [...array]: a new array of the same elements
SpreadCopy(array) == Arr(array.items, "copy")

\* array.sort(): sorts the array it is called on, in place, and returns it
SortInPlace(array) == Arr(Sort(array.items), array.ref)

\* the sorted branch of compareArrays: both arrays hold no object
SortedArraysEqual(arrayA, arrayB, enableTypeCoercion) ==
  LET sortedA == SortInPlace(SpreadCopy(arrayA)).items
      sortedB == SortInPlace(SpreadCopy(arrayB)).items
  IN  \A i \in 1..Len(sortedA) :
        comparePrimitives(sortedA[i], sortedB[i], enableTypeCoercion)

\* one turn of the loop of compareArrays over index i (from 0): TRUE is continue
ArrayItemsEqual(itemA, itemB, i, context) ==
  IF /\ NotObjectOrNull(itemA) \/ IsArray(itemA)
     /\ NotObjectOrNull(itemB) \/ IsArray(itemB)
  THEN comparePrimitives(itemA, itemB, context.options.enableTypeCoercion)
  ELSE IF /\ ~NotObjectOrNull(itemA) /\ ~IsArray(itemA)
          /\ ~NotObjectOrNull(itemB) /\ ~IsArray(itemB)
          /\ context.depth < context.options.maxDepth
    THEN LET diffResult ==
               internalDiff(itemA, itemB,
                            [context EXCEPT !.depth = context.depth + 1,
                                            !.path = Append(context.path, NumberToString(i))])
         IN  ~ \/ ObjectKeysLength(diffResult.additions) > 0
               \/ ObjectKeysLength(diffResult.deletions) > 0
               \/ ObjectKeysLength(diffResult.updates) > 0
  ELSE FALSE

\* compareArrays without the length test, comparing the positions both arrays have
compareArraysCommonPrefix(arrayA, arrayB, context) ==
  LET shorter == IF Len(arrayA.items) < Len(arrayB.items) THEN arrayA ELSE arrayB IN
  IF Len(shorter.items) = 0 THEN TRUE
  ELSE \A i \in 1..Len(shorter.items) :
         ArrayItemsEqual(arrayA.items[i], arrayB.items[i], i - 1, context)

compareArrays(arrayA, arrayB, context) ==
  IF Len(arrayA.items) # Len(arrayB.items) THEN FALSE
  ELSE IF Len(arrayA.items) = 0 THEN TRUE
  ELSE IF /\ ~context.options.arrayOrderMatters
          /\ \A i \in 1..Len(arrayA.items) : NotObjectOrNull(arrayA.items[i])
          /\ \A i \in 1..Len(arrayB.items) : NotObjectOrNull(arrayB.items[i])
    THEN SortedArraysEqual(arrayA, arrayB, context.options.enableTypeCoercion)
  ELSE \A i \in 1..Len(arrayA.items) :
         ArrayItemsEqual(arrayA.items[i], arrayB.items[i], i - 1, context)

\* result.additions[key] = value (and the like): an assignment into a map slot
Put(slot, key, value) == MapOf((key :> value) @@ slot.m)

\* context.path.length > 0 ? `${context.path.join('.')}.${key}` : key
CurrentPath(context, key) ==
  IF Len(context.path) > 0 THEN Join(context.path) \o <<".">> \o key ELSE key

\* the array context taking one level of depth
ArrayContextDeeper(context, key) ==
  [context EXCEPT !.depth = context.depth + 1, !.path = Append(context.path, key)]

\* { ...context, path: [...context.path, key] }, the context compareArrays is given for a key
ArrayContext(context, key) == [context EXCEPT !.path = Append(context.path, key)]

\* the recursion guard one level short
ShouldRecurseOneShort(valueA, valueB, context) ==
  /\ context.depth + 1 < context.options.maxDepth
  /\ isPlainObject(valueA)
  /\ isPlainObject(valueB)

\* the recursion guard with <= for <
ShouldRecurseInclusive(valueA, valueB, context) ==
  /\ context.depth <= context.options.maxDepth
  /\ isPlainObject(valueA)
  /\ isPlainObject(valueB)

\* the guard of the recursion into a key both objects have
ShouldRecurse(valueA, valueB, context) ==
  /\ context.depth < context.options.maxDepth
  /\ isPlainObject(valueA)
  /\ isPlainObject(valueB)

\* the first loop recording every key of A it does not skip, shared with B or not
DeletionStepAlways(key, objA, objB, context, result) ==
  IF shouldIgnoreProperty(CurrentPath(context, key), context.options.ignoreProperties)
  THEN result
  ELSE [result EXCEPT !.deletions = Put(@, key, Whole(Get(objA, key)))]

\* the first loop without its ignore check
DeletionStepNoIgnore(key, objA, objB, context, result) ==
  IF ~HasProperty(key, objB)
  THEN [result EXCEPT !.deletions = Put(@, key, Whole(Get(objA, key)))]
  ELSE result

\* one turn of the first loop of compareObjects: keys in A but not in B
DeletionStep(key, objA, objB, context, result) ==
  IF shouldIgnoreProperty(CurrentPath(context, key), context.options.ignoreProperties)
  THEN result
  ELSE IF ~HasProperty(key, objB)
    THEN [result EXCEPT !.deletions = Put(@, key, Whole(Get(objA, key)))]
  ELSE result

\* the second loop attaching the nested maps without looking whether they are empty
AdditionUpdateStepAlwaysAttach(key, objA, objB, context, result) ==
  LET valueA == Get(objA, key)
      valueB == Get(objB, key)
      nestedContext == [context EXCEPT !.depth = context.depth + 1,
                                       !.path = Append(context.path, key)]
      nestedResult == internalDiff(valueA, valueB, nestedContext)
      withAdditions ==
        [result EXCEPT !.additions = Put(@, key, nestedResult.additions)]
      withDeletions ==
        [withAdditions EXCEPT !.deletions = Put(@, key, nestedResult.deletions)]
      withUpdates ==
        [withDeletions EXCEPT !.updates = Put(@, key, nestedResult.updates)]
  IN
  IF shouldIgnoreProperty(CurrentPath(context, key), context.options.ignoreProperties)
  THEN result
  ELSE IF ~HasProperty(key, objA)
    THEN [result EXCEPT !.additions = Put(@, key, Whole(valueB))]
  ELSE IF ShouldRecurse(valueA, valueB, context)
    THEN withUpdates
  ELSE IF IsArray(valueA) /\ IsArray(valueB)
    THEN IF ~compareArrays(valueA, valueB,
                           ArrayContext(context, key))
         THEN [result EXCEPT !.updates = Put(@, key, FromTo(valueA, valueB))]
         ELSE result
  ELSE IF ~comparePrimitives(valueA, valueB, context.options.enableTypeCoercion)
    THEN [result EXCEPT !.updates = Put(@, key, FromTo(valueA, valueB))]
  ELSE result

\* the three attachments after a nested comparison, each if its map is non-empty
AttachNested(result, key, nestedResult) ==
  LET withAdditions ==
        IF ObjectKeysLength(nestedResult.additions) > 0
        THEN [result EXCEPT !.additions = Put(@, key, nestedResult.additions)]
        ELSE result
      withDeletions ==
        IF ObjectKeysLength(nestedResult.deletions) > 0
        THEN [withAdditions EXCEPT !.deletions = Put(@, key, nestedResult.deletions)]
        ELSE withAdditions
  IN  IF ObjectKeysLength(nestedResult.updates) > 0
      THEN [withDeletions EXCEPT !.updates = Put(@, key, nestedResult.updates)]
      ELSE withDeletions

\* one turn of the second loop of compareObjects: additions and updates
AdditionUpdateStep(key, objA, objB, context, result) ==
  LET valueA == Get(objA, key)
      valueB == Get(objB, key)
      nestedContext == [context EXCEPT !.depth = context.depth + 1,
                                       !.path = Append(context.path, key)]
      nestedResult == internalDiff(valueA, valueB, nestedContext)
  IN
  IF shouldIgnoreProperty(CurrentPath(context, key), context.options.ignoreProperties)
  THEN result
  ELSE IF ~HasProperty(key, objA)
    THEN [result EXCEPT !.additions = Put(@, key, Whole(valueB))]
  ELSE IF ShouldRecurse(valueA, valueB, context)
    THEN AttachNested(result, key, nestedResult)
  ELSE IF IsArray(valueA) /\ IsArray(valueB)
    THEN IF ~compareArrays(valueA, valueB,
                           ArrayContext(context, key))
         THEN [result EXCEPT !.updates = Put(@, key, FromTo(valueA, valueB))]
         ELSE result
  ELSE IF ~comparePrimitives(valueA, valueB, context.options.enableTypeCoercion)
    THEN [result EXCEPT !.updates = Put(@, key, FromTo(valueA, valueB))]
  ELSE result

\* the keys of a set in some order (the result does not depend on it)
RECURSIVE KeySeq(_)
KeySeq(keys) ==
  IF keys = {} THEN <<>>
  ELSE LET key == CHOOSE k \in keys : TRUE IN <<key>> \o KeySeq(keys \ {key})

RECURSIVE DeletionsLoop(_, _, _, _, _)
DeletionsLoop(keys, objA, objB, context, result) ==
  IF keys = <<>> THEN result
  ELSE DeletionsLoop(Tail(keys), objA, objB, context,
                     DeletionStep(Head(keys), objA, objB, context, result))

RECURSIVE AdditionsUpdatesLoop(_, _, _, _, _)
AdditionsUpdatesLoop(keys, objA, objB, context, result) ==
  IF keys = <<>> THEN result
  ELSE AdditionsUpdatesLoop(Tail(keys), objA, objB, context,
                            AdditionUpdateStep(Head(keys), objA, objB, context, result))

compareObjects(objA, objB, context) ==
  LET keysA == KeySeq(ObjectKeys(objA))
      keysB == KeySeq(ObjectKeys(objB))
  IN  AdditionsUpdatesLoop(keysB, objA, objB, context,
                           DeletionsLoop(keysA, objA, objB, context, EmptyResult))

\* internalDiff with the sides of a null argument exchanged
internalDiffSwappedNull(objA, objB, context) ==
  IF IsNullish(objA) /\ IsNullish(objB) THEN EmptyResult
  ELSE IF IsNullish(objA) THEN [EmptyResult EXCEPT !.deletions = Whole(objB)]
  ELSE IF IsNullish(objB) THEN [EmptyResult EXCEPT !.additions = Whole(objA)]
  ELSE IF TypeOf(objA) # TypeOf(objB)
    THEN [EmptyResult EXCEPT !.updates = FromTo(objA, objB)]
  ELSE IF IsArray(objA) /\ IsArray(objB)
    THEN IF ~compareArrays(objA, objB, context)
         THEN [EmptyResult EXCEPT !.updates = FromTo(objA, objB)]
         ELSE EmptyResult
  ELSE IF isPlainObject(objA) /\ isPlainObject(objB)
    THEN compareObjects(objA, objB, context)
  ELSE IF ~comparePrimitives(objA, objB, context.options.enableTypeCoercion)
    THEN [EmptyResult EXCEPT !.updates = FromTo(objA, objB)]
  ELSE EmptyResult

\* internalDiff trying the coercion when the types differ
internalDiffCoercedMismatch(objA, objB, context) ==
  IF IsNullish(objA) /\ IsNullish(objB) THEN EmptyResult
  ELSE IF IsNullish(objA) THEN [EmptyResult EXCEPT !.additions = Whole(objB)]
  ELSE IF IsNullish(objB) THEN [EmptyResult EXCEPT !.deletions = Whole(objA)]
  ELSE IF TypeOf(objA) # TypeOf(objB)
    THEN IF comparePrimitives(objA, objB, context.options.enableTypeCoercion)
         THEN EmptyResult
         ELSE [EmptyResult EXCEPT !.updates = FromTo(objA, objB)]
  ELSE IF IsArray(objA) /\ IsArray(objB)
    THEN IF ~compareArrays(objA, objB, context)
         THEN [EmptyResult EXCEPT !.updates = FromTo(objA, objB)]
         ELSE EmptyResult
  ELSE IF isPlainObject(objA) /\ isPlainObject(objB)
    THEN compareObjects(objA, objB, context)
  ELSE IF ~comparePrimitives(objA, objB, context.options.enableTypeCoercion)
    THEN [EmptyResult EXCEPT !.updates = FromTo(objA, objB)]
  ELSE EmptyResult

internalDiff(objA, objB, context) ==
  IF IsNullish(objA) /\ IsNullish(objB) THEN EmptyResult
  ELSE IF IsNullish(objA) THEN [EmptyResult EXCEPT !.additions = Whole(objB)]
  ELSE IF IsNullish(objB) THEN [EmptyResult EXCEPT !.deletions = Whole(objA)]
  ELSE IF TypeOf(objA) # TypeOf(objB)
    THEN [EmptyResult EXCEPT !.updates = FromTo(objA, objB)]
  ELSE IF IsArray(objA) /\ IsArray(objB)
    THEN IF ~compareArrays(objA, objB, context)
         THEN [EmptyResult EXCEPT !.updates = FromTo(objA, objB)]
         ELSE EmptyResult
  ELSE IF isPlainObject(objA) /\ isPlainObject(objB)
    THEN compareObjects(objA, objB, context)
  ELSE IF ~comparePrimitives(objA, objB, context.options.enableTypeCoercion)
    THEN [EmptyResult EXCEPT !.updates = FromTo(objA, objB)]
  ELSE EmptyResult

diff(objectA, objectB, options) ==
  LET mergedOptions == MergeOptions(options)
      context == [path |-> <<>>, depth |-> 0, options |-> mergedOptions]
  IN  internalDiff(objectA, objectB, context)

(***************************************************************************)
(* The library as a state machine: one call of an exported function per    *)
(* behaviour.  call names the function called, objectA, objectB and        *)
(* options are its arguments and result is what it returned; stack holds   *)
(* the activations of a call that is followed step by step.                *)
(***************************************************************************)
VARIABLES call, objectA, objectB, options, result, stack

vars == <<call, objectA, objectB, options, result, stack>>

Init ==
  /\ call = "none"
  /\ objectA = Undefined
  /\ objectB = Undefined
  /\ options = <<>>
  /\ result = EmptyResult
  /\ stack = <<>>

\* diff(a, b, o)
Diff(a, b, o) ==
  /\ call = "none"
  /\ call' = "diff"
  /\ objectA' = a
  /\ objectB' = b
  /\ options' = o
  /\ result' = diff(a, b, o)
  /\ stack' = stack

\* comparePrimitives(a, b, c), exported for advanced usage
ComparePrimitives(a, b, c) ==
  /\ call = "none"
  /\ call' = "comparePrimitives"
  /\ objectA' = a
  /\ objectB' = b
  /\ options' = [enableTypeCoercion |-> c]
  /\ result' = comparePrimitives(a, b, c)
  /\ stack' = stack

\* shouldIgnoreProperty(propertyPath, ignoreProperties), exported for advanced usage
ShouldIgnoreProperty(propertyPath, ignoreProperties) ==
  /\ call = "none"
  /\ call' = "shouldIgnoreProperty"
  /\ objectA' = Str(propertyPath)
  /\ objectB' = Undefined
  /\ options' = [ignoreProperties |-> ignoreProperties]
  /\ result' = shouldIgnoreProperty(propertyPath, ignoreProperties)
  /\ stack' = stack

(***************************************************************************)
(* The inputs the calls are drawn from.                                    *)
(***************************************************************************)
S_empty == <<>>
S_blank == <<" ">>
S_0 == <<"0">>
S_1 == <<"1">>
S_30 == <<"3", "0">>
S_30p0 == <<"3", "0", ".", "0">>
S_30sp == <<" ", "3", "0", " ">>
S_true == <<"t", "r", "u", "e">>
S_TRUE == <<"T", "R", "U", "E">>
S_false == <<"f", "a", "l", "s", "e">>
S_null == <<"n", "u", "l", "l">>
S_abc == <<"a", "b", "c">>
S_2023 == <<"2", "0", "2", "3">>
S_2023_01 == <<"2", "0", "2", "3", "-", "0", "1">>
S_2023_02 == <<"2", "0", "2", "3", "-", "0", "2">>

\* 2023-01-01T00:00:00.000Z and 2023-02-01T00:00:00.000Z, in months
T_2023_01 == DateParse(S_2023_01).n
T_2023_02 == DateParse(S_2023_02).n

k_a == <<"a">>
k_b == <<"b">>
k_valueOf == <<"v", "a", "l", "u", "e", "O", "f">>

\* the two sides a reference value can be allocated on
RefA == "A"
RefB == "B"

Strings ==
  { S_empty, S_blank, S_0, S_1, S_30, S_30p0, S_30sp, S_true, S_TRUE, S_false,
    S_null, S_abc, S_2023, S_2023_01 }

Numbers == {0, 1, 30, 2023}

\* numbers, strings, booleans, dates and null/absent
Scalars(ref) ==
  {Null, Undefined}
    \cup {Num(n) : n \in Numbers}
    \cup {Str(s) : s \in Strings}
    \cup {Bool(b) : b \in BOOLEAN}
    \cup {DateOf(T_2023_01, ref), DateOf(T_2023_02, ref)}

\* the values of the fields of flat objects
FlatValues(ref) ==
  {Null, Num(30), Str(S_30), Str(S_true), Bool(TRUE), DateOf(T_2023_01, ref), Str(S_2023)}

FlatKeys == {k_a, k_valueOf}

\* every object with some of the keys, each holding one of the values
ObjectsOver(keys, values, ref) ==
  UNION {{Obj(f, ref) : f \in [ks -> values]} : ks \in SUBSET keys}

CoercionOptions == {<<>>, [enableTypeCoercion |-> TRUE], [enableTypeCoercion |-> FALSE]}

DiffFlat ==
  /\ call = "none"
  /\ \E a \in ObjectsOver(FlatKeys, FlatValues(RefA), RefA),
        b \in ObjectsOver(FlatKeys, FlatValues(RefB), RefB),
        o \in CoercionOptions :
       Diff(a, b, o)

CallComparePrimitives ==
  /\ call = "none"
  /\ \E a \in Scalars(RefA), b \in Scalars(RefA) \cup Scalars(RefB), c \in BOOLEAN :
       ComparePrimitives(a, b, c)

\* every sequence over the values of length at most n
SeqsUpTo(values, n) == UNION {[1..m -> values] : m \in 0..n}

\* a structurally equal copy of v allocated on side ref
RECURSIVE Copy(_, _)
Copy(v, ref) ==
  CASE v.t = "object" -> Obj([key \in DOMAIN v.fields |-> Copy(v.fields[key], ref)], ref)
    [] v.t = "array" -> Arr([i \in 1..Len(v.items) |-> Copy(v.items[i], ref)], ref)
    [] v.t = "date" -> DateOf(v.time, ref)
    [] OTHER -> v

\* the options a call may give
AnyOptions ==
  { <<>>,
    [enableTypeCoercion |-> FALSE],
    [arrayOrderMatters |-> FALSE],
    [maxDepth |-> 0],
    [ignoreProperties |-> <<k_a>>],
    [ignoreProperties |-> <<k_a>>, enableTypeCoercion |-> FALSE,
     arrayOrderMatters |-> FALSE, maxDepth |-> 1] }

\* the values diff is called on at top level: scalars, and some objects and arrays
TopValues(ref) ==
  Scalars(ref) \cup
    { Obj(<<>>, ref), Obj(k_a :> Num(30), ref), Obj(k_a :> Num(30) @@ k_b :> Null, ref),
      Arr(<<>>, ref), Arr(<<Num(30)>>, ref) }

DiffTopLevel ==
  /\ call = "none"
  /\ \E a \in TopValues(RefA), b \in TopValues(RefB), o \in AnyOptions :
       Diff(a, b, o)

\* the longest array of the values that are copied
MaxLen == 2

\* the deepest chain of nested objects that is copied
MaxNest == 11

Leaves(ref) == {Null, Num(30), Str(S_30), Bool(TRUE), DateOf(T_2023_01, ref)}

\* leaves, arrays of leaves and objects of leaves
Level1(ref) ==
  Leaves(ref)
    \cup {Arr(items, ref) : items \in SeqsUpTo(Leaves(ref), MaxLen)}
    \cup ObjectsOver({k_a, k_b}, Leaves(ref), ref)

\* {a: {a: ... {a: leaf}}} with n objects around the outermost one's field
RECURSIVE NestChain(_, _, _)
NestChain(n, leaf, ref) ==
  IF n = 0 THEN Obj(k_a :> leaf, ref) ELSE Obj(k_a :> NestChain(n - 1, leaf, ref), ref)

Trees(ref) ==
  Level1(ref)
    \cup {Obj(k_a :> v, ref) : v \in Level1(ref)}
    \cup {Obj(k_a :> Num(30) @@ k_b :> Obj(k_valueOf :> v, ref), ref) : v \in Level1(ref)}
    \cup {Arr(<<v>>, ref) : v \in Level1(ref)}
    \cup {Arr(<<Num(30), v>>, ref) : v \in Level1(ref)}
    \cup {NestChain(n, leaf, ref) :
            n \in 0..MaxNest, leaf \in {Num(30), Arr(<<Obj(k_a :> Num(30), ref)>>, ref)}}

\* diff of a value and a separately built copy of it, or of a value and itself
DiffCopy ==
  /\ call = "none"
  /\ \E v \in Trees(RefA), o \in {<<>>, [maxDepth |-> 0], [maxDepth |-> 1]} :
       \/ Diff(v, Copy(v, RefB), o)
       \/ Diff(v, v, o)

k_u == <<"u">>
k_i == <<"_", "i">>

Absent == [t |-> "absent"]

\* every object that gives each key of choices one of its values, or lacks it (Absent)
ObjectsFrom(choices, ref) ==
  { Obj([key \in {k \in DOMAIN choices : f[k] # Absent} |-> f[key]], ref) :
      f \in {g \in [DOMAIN choices -> UNION {choices[k] : k \in DOMAIN choices}] :
               \A k \in DOMAIN choices : g[k] \in choices[k]} }

InnerObjects(ref) ==
  ObjectsFrom(k_a :> {Absent, Num(30), Str(S_30)} @@
              k_b :> {Absent, Num(30)} @@
              k_i :> {Absent, Num(30), Num(1)}, ref)

\* objects with a nested object under u and the key _i at both levels
NestedObjects(ref, top) ==
  ObjectsFrom(k_u :> ({Absent, Num(30)} \cup InnerObjects(ref)) @@
              k_i :> {Absent, top}, ref)

P_i == k_i
P_u == k_u
P_u_i == <<"u", ".", "_", "i">>
P_u_star == <<"u", ".", "_", "*">>
P_star_i == <<"*", ".", "_", "i">>
P_star == <<"*">>

IgnoreLists ==
  { <<>>, <<P_i>>, <<P_u>>, <<P_u_i>>, <<P_u_star>>, <<P_star_i>>, <<P_star>>, <<P_u_i, P_i>> }

\* the largest maxDepth given to calls on nested objects
MaxDepthOption == 1

NestedOptions ==
  {[ignoreProperties |-> l] : l \in IgnoreLists}
    \cup {[ignoreProperties |-> l, maxDepth |-> d] : l \in IgnoreLists, d \in 0..MaxDepthOption}

DiffNested ==
  /\ call = "none"
  /\ \E a \in NestedObjects(RefA, Num(30)), b \in NestedObjects(RefB, Num(1)),
        o \in NestedOptions :
       Diff(a, b, o)

k_x == <<"x">>

ArrayElements == {Num(1), Num(30), Str(S_1), Null, Str(S_null), Bool(TRUE), Str(S_true)}

\* the rearrangements of a sequence
Rearrangements(items) ==
  { [i \in 1..Len(items) |-> items[p[i]]] :
      p \in {q \in [1..Len(items) -> 1..Len(items)] :
               \A i, j \in 1..Len(items) : q[i] = q[j] => i = j} }

\* a sequence with one element replaced or its first element dropped
Edits(items) ==
  IF items = <<>> THEN {}
  ELSE {Tail(items)} \cup {[items EXCEPT ![1] = e] : e \in ArrayElements}

ArrayOptions ==
  {<<>>}
    \cup {[arrayOrderMatters |-> m] : m \in BOOLEAN}
    \cup {[arrayOrderMatters |-> m, enableTypeCoercion |-> FALSE] : m \in BOOLEAN}

\* diff({x: [...]}, {x: [...]}, options) on arrays of primitives
DiffArrays ==
  /\ call = "none"
  /\ \E items \in SeqsUpTo(ArrayElements, MaxLen), o \in ArrayOptions :
       \E other \in Rearrangements(items) \cup Edits(items) :
         Diff(Obj(k_x :> Arr(items, RefA), RefA), Obj(k_x :> Arr(other, RefB), RefB), o)

\* paths: keys at the top, below u, below a key that is a star, and u followed by no dot
IgnorePaths ==
  { <<>>, k_i, k_u, k_a, P_u_i, P_star, P_star_i,
    <<"u", ".", "a">>,
    <<"u", ".", "_", "i", ".", "a">>,
    <<"u", ".", "u">>,
    <<"u", "x", "_", "i">>,
    <<"*", ".", "_", "i", ".", "a">>,
    <<"a", ".", "u", ".", "_", "i">> }

\* patterns: bare names, dotted paths, and patterns with a star
IgnorePatterns ==
  { P_i, P_u, k_a, P_u_i, P_u_star, P_star_i, P_star,
    <<"u", "*">>, <<"*", "i">>, <<"u", ".", "*", ".", "a">>, <<"*", ".", "*">> }

\* the longest ignore list shouldIgnoreProperty is called on
MaxIgnore == 2

CallShouldIgnoreProperty ==
  /\ call = "none"
  /\ \E propertyPath \in IgnorePaths, ignoreProperties \in SeqsUpTo(IgnorePatterns, MaxIgnore) :
       ShouldIgnoreProperty(propertyPath, ignoreProperties)

k_name == <<"n", "a", "m", "e">>
k_age == <<"a", "g", "e">>
k_profile == <<"p", "r", "o", "f", "i", "l", "e">>
k_email == <<"e", "m", "a", "i", "l">>
k_active == <<"a", "c", "t", "i", "v", "e">>
k_phone == <<"p", "h", "o", "n", "e">>
S_John == <<"J", "o", "h", "n">>
S_email == <<"j", "o", "h", "n", "@", "e", "x", "a", "m", "p", "l", "e", ".", "c", "o", "m">>
S_phone == <<"+", "1", "2", "3", "4", "5", "6", "7", "8", "9", "0">>

\* objectA and objectB of the README's Quick Start
QuickStartA ==
  Obj(k_name :> Str(S_John) @@ k_age :> Num(30) @@
      k_profile :> Obj(k_email :> Str(S_email) @@ k_active :> Bool(TRUE), RefA), RefA)

QuickStartB ==
  Obj(k_name :> Str(S_John) @@ k_age :> Num(31) @@
      k_profile :> Obj(k_email :> Str(S_email) @@ k_active :> Str(S_true) @@
                       k_phone :> Str(S_phone), RefB), RefB)

\* diff(objectA, objectB) of the Quick Start, and the same call with other options
DiffQuickStart ==
  /\ call = "none"
  /\ \E o \in AnyOptions : Diff(QuickStartA, QuickStartB, o)

Next ==
  \/ DiffFlat
  \/ DiffTopLevel
  \/ DiffCopy
  \/ DiffNested
  \/ DiffArrays
  \/ DiffQuickStart
  \/ CallComparePrimitives
  \/ CallShouldIgnoreProperty

Spec == Init /\ [][Next]_vars

(***************************************************************************)
(* One call of diff followed step by step.  stack holds the activations    *)
(* of internalDiff, compareObjects and compareArrays, the innermost last:  *)
(* each with its arguments, the place it is at (pc), the keys its loop has *)
(* still to visit, the key it is at, its loop index i, its result so far   *)
(* and the value the call it made has returned (ret).  The keys of a loop  *)
(* are visited in any order.  call is "running" until diff returns, and    *)
(* "error" when an exception leaves diff.  A step is given by its outcome: *)
(* the stack, call and result after it, and the arrays it has sorted in    *)
(* place, each with the path it is found at.  objectA and objectB are the  *)
(* two arguments as the caller sees them: sorting one of their arrays      *)
(* changes them.                                                           *)
(***************************************************************************)
Frame(fn, objA, objB, context) ==
  [ fn |-> fn, objA |-> objA, objB |-> objB, context |-> context, pc |-> "entry",
    keys |-> {}, key |-> <<>>, i |-> 0, result |-> EmptyResult, ret |-> EmptyResult ]

Top == stack[Len(stack)]

Callers == SubSeq(stack, 1, Len(stack) - 1)

Running(fn, pcs) ==
  /\ call = "running"
  /\ stack # <<>>
  /\ Top.fn = fn
  /\ Top.pc \in pcs

\* the running activation moves on
Goto(frame) ==
  [stack |-> Append(Callers, frame), call |-> "running", result |-> result, sorted |-> {}]

\* the running activation calls a function
Push(frame, callee) ==
  [stack |-> Append(Append(Callers, frame), callee), call |-> "running", result |-> result,
   sorted |-> {}]

\* return value: to the activation below, or from diff to its caller
Return(value) ==
  IF Len(stack) = 1
  THEN [stack |-> <<>>, call |-> "diff", result |-> value, sorted |-> {}]
  ELSE [stack |-> Append(SubSeq(stack, 1, Len(stack) - 2),
                         [stack[Len(stack) - 1] EXCEPT !.ret = value]),
        call |-> "running", result |-> result, sorted |-> {}]

\* a TypeError that nothing catches
Throw == [stack |-> <<>>, call |-> "error", result |-> result, sorted |-> {}]

\* value with the array found at path given new elements
RECURSIVE WriteAt(_, _, _)
WriteAt(value, path, items) ==
  IF path = <<>> THEN [value EXCEPT !.items = items]
  ELSE IF value.t = "object"
    THEN [value EXCEPT !.fields[Head(path)] = WriteAt(@, Tail(path), items)]
  ELSE [value EXCEPT !.items[DigitsValue(Head(path)) + 1] = WriteAt(@, Tail(path), items)]

\* an argument of diff after a step: its arrays that the step sorted are sorted
InputAfter(input, ref, outcome) ==
  IF \E s \in outcome.sorted : s.array.ref = ref
  THEN LET s == CHOOSE x \in outcome.sorted : x.array.ref = ref
       IN  WriteAt(input, s.path, s.array.items)
  ELSE input

Become(outcome) ==
  /\ stack' = outcome.stack
  /\ call' = outcome.call
  /\ result' = outcome.result
  /\ objectA' = InputAfter(objectA, RefA, outcome)
  /\ objectB' = InputAfter(objectB, RefB, outcome)
  /\ options' = options

\* a for...of loop that never leaves the key it is at
KeysLeftSame(keys, key) == keys

\* the keys a for...of loop has still to visit after key
KeysLeft(keys, key) == keys \ {key}

\* Object.keys(x) throws on null and undefined
ObjectKeysThrows(x) == IsNullish(x)

\* key in x throws unless x is an object or a function
InThrows(x) == TypeOf(x) \notin {"object", "function"} \/ x.t = "null"

\* Object.keys of a slot of a DiffResult throws when the slot holds null or undefined
SlotKeysThrows(slot) == slot.k = "value" /\ IsNullish(slot.v)

\* diff(a, b, o) up to its call of internalDiff
CallDiff(a, b, o) ==
  /\ call = "none"
  /\ call' = "running"
  /\ objectA' = a
  /\ objectB' = b
  /\ options' = o
  /\ result' = result
  /\ stack' = <<Frame("internalDiff", a, b,
                      [path |-> <<>>, depth |-> 0, options |-> MergeOptions(o)])>>

\* internalDiff up to its return or its call of compareArrays or compareObjects
InternalDiffEntryOutcome ==
  LET objA == Top.objA
      objB == Top.objB
      context == Top.context
  IN  IF IsNullish(objA) /\ IsNullish(objB) THEN Return(EmptyResult)
      ELSE IF IsNullish(objA)
        THEN Return([EmptyResult EXCEPT !.additions = Whole(objB)])
      ELSE IF IsNullish(objB)
        THEN Return([EmptyResult EXCEPT !.deletions = Whole(objA)])
      ELSE IF TypeOf(objA) # TypeOf(objB)
        THEN Return([EmptyResult EXCEPT !.updates = FromTo(objA, objB)])
      ELSE IF IsArray(objA) /\ IsArray(objB)
        THEN Push([Top EXCEPT !.pc = "compareArrays"],
                  Frame("compareArrays", objA, objB, context))
      ELSE IF isPlainObject(objA) /\ isPlainObject(objB)
        THEN Push([Top EXCEPT !.pc = "compareObjects"],
                  Frame("compareObjects", objA, objB, context))
      ELSE IF ~comparePrimitives(objA, objB, context.options.enableTypeCoercion)
        THEN Return([EmptyResult EXCEPT !.updates = FromTo(objA, objB)])
      ELSE Return(EmptyResult)

AtInternalDiffEntry == Running("internalDiff", {"entry"})

InternalDiffEntry == AtInternalDiffEntry /\ Become(InternalDiffEntryOutcome)

\* internalDiff after compareArrays or compareObjects has returned
InternalDiffResumeOutcome ==
  IF Top.pc = "compareObjects" THEN Return(Top.ret)
  ELSE IF ~Top.ret
    THEN Return([EmptyResult EXCEPT !.updates = FromTo(Top.objA, Top.objB)])
  ELSE Return(EmptyResult)

AtInternalDiffResume == Running("internalDiff", {"compareArrays", "compareObjects"})

InternalDiffResume == AtInternalDiffResume /\ Become(InternalDiffResumeOutcome)

\* compareObjects up to its first loop: Object.keys(objA), Object.keys(objB)
CompareObjectsEntryOutcome ==
  IF ObjectKeysThrows(Top.objA) \/ ObjectKeysThrows(Top.objB) THEN Throw
  ELSE Goto([Top EXCEPT !.pc = "deletions", !.keys = ObjectKeys(Top.objA)])

AtCompareObjectsEntry == Running("compareObjects", {"entry"})

CompareObjectsEntry == AtCompareObjectsEntry /\ Become(CompareObjectsEntryOutcome)

\* one turn of the first loop of compareObjects
DeletionsTurnOutcome(key) ==
  IF /\ ~shouldIgnoreProperty(CurrentPath(Top.context, key),
                              Top.context.options.ignoreProperties)
     /\ InThrows(Top.objB)
  THEN Throw
  ELSE Goto([Top EXCEPT !.keys = KeysLeft(@, key),
                        !.result = DeletionStep(key, Top.objA, Top.objB, Top.context, @)])

AtDeletionsTurn == Running("compareObjects", {"deletions"}) /\ Top.keys # {}

DeletionsTurn == AtDeletionsTurn /\ \E key \in Top.keys : Become(DeletionsTurnOutcome(key))

\* the end of the first loop of compareObjects
DeletionsEndOutcome == Goto([Top EXCEPT !.pc = "additions", !.keys = ObjectKeys(Top.objB)])

AtDeletionsEnd == Running("compareObjects", {"deletions"}) /\ Top.keys = {}

DeletionsEnd == AtDeletionsEnd /\ Become(DeletionsEndOutcome)

\* one turn of the second loop of compareObjects, up to the call it makes if it makes one
AdditionsTurnOutcome(key) ==
  LET objA == Top.objA
      objB == Top.objB
      context == Top.context
      valueA == Get(objA, key)
      valueB == Get(objB, key)
      ignored == shouldIgnoreProperty(CurrentPath(context, key),
                                      context.options.ignoreProperties)
      visited == [Top EXCEPT !.keys = KeysLeft(@, key), !.key = key]
  IN  IF ~ignored /\ InThrows(objA) THEN Throw
      ELSE IF ~ignored /\ HasProperty(key, objA) /\ ShouldRecurse(valueA, valueB, context)
        THEN Push([visited EXCEPT !.pc = "internalDiff"],
                  Frame("internalDiff", valueA, valueB,
                        [context EXCEPT !.depth = context.depth + 1,
                                        !.path = Append(context.path, key)]))
      ELSE IF ~ignored /\ HasProperty(key, objA) /\ IsArray(valueA) /\ IsArray(valueB)
        THEN Push([visited EXCEPT !.pc = "compareArrays"],
                  Frame("compareArrays", valueA, valueB,
                        ArrayContext(context, key)))
      ELSE Goto([visited EXCEPT !.result = AdditionUpdateStep(key, objA, objB, context, @)])

AtAdditionsTurn == Running("compareObjects", {"additions"}) /\ Top.keys # {}

AdditionsTurn == AtAdditionsTurn /\ \E key \in Top.keys : Become(AdditionsTurnOutcome(key))

\* the second loop of compareObjects after internalDiff or compareArrays has returned
AdditionsResumeOutcome ==
  LET key == Top.key
      ret == Top.ret
  IN  IF Top.pc = "internalDiff"
      THEN IF \/ SlotKeysThrows(ret.additions)
              \/ SlotKeysThrows(ret.deletions)
              \/ SlotKeysThrows(ret.updates)
           THEN Throw
           ELSE Goto([Top EXCEPT !.pc = "additions", !.result = AttachNested(@, key, ret)])
      ELSE IF ~ret
        THEN Goto([Top EXCEPT
                     !.pc = "additions",
                     !.result = [@ EXCEPT !.updates =
                                   Put(@, key, FromTo(Get(Top.objA, key), Get(Top.objB, key)))]])
      ELSE Goto([Top EXCEPT !.pc = "additions"])

AtAdditionsResume == Running("compareObjects", {"internalDiff", "compareArrays"})

AdditionsResume == AtAdditionsResume /\ Become(AdditionsResumeOutcome)

\* the end of the second loop of compareObjects: return result
AdditionsEndOutcome == Return(Top.result)

AtAdditionsEnd == Running("compareObjects", {"additions"}) /\ Top.keys = {}

AdditionsEnd == AtAdditionsEnd /\ Become(AdditionsEndOutcome)

\* compareArrays up to its loop over the elements, or its return
CompareArraysEntryOutcome ==
  LET arrayA == Top.objA
      arrayB == Top.objB
      context == Top.context
  IN  IF ~IsArray(arrayA) \/ ~IsArray(arrayB) THEN Throw
      ELSE IF Len(arrayA.items) # Len(arrayB.items) THEN Return(FALSE)
      ELSE IF Len(arrayA.items) = 0 THEN Return(TRUE)
      ELSE IF /\ ~context.options.arrayOrderMatters
              /\ \A i \in 1..Len(arrayA.items) : NotObjectOrNull(arrayA.items[i])
              /\ \A i \in 1..Len(arrayB.items) : NotObjectOrNull(arrayB.items[i])
        THEN [Return(SortedArraysEqual(arrayA, arrayB, context.options.enableTypeCoercion))
                EXCEPT !.sorted = { [array |-> SortInPlace(SpreadCopy(arrayA)),
                                     path |-> context.path],
                                    [array |-> SortInPlace(SpreadCopy(arrayB)),
                                     path |-> context.path] }]
      ELSE Goto([Top EXCEPT !.pc = "loop", !.i = 0])

AtCompareArraysEntry == Running("compareArrays", {"entry"})

CompareArraysEntry == AtCompareArraysEntry /\ Become(CompareArraysEntryOutcome)

\* one turn of the loop of compareArrays over the elements, up to the call of internalDiff
\* if it makes one, or the return of compareArrays
ArrayItemTurnOutcome ==
  LET i == Top.i
      context == Top.context
  IN  IF i >= Len(Top.objA.items) THEN Return(TRUE)
      ELSE LET itemA == Top.objA.items[i + 1]
               itemB == Top.objB.items[i + 1]
           IN  IF /\ NotObjectOrNull(itemA) \/ IsArray(itemA)
                  /\ NotObjectOrNull(itemB) \/ IsArray(itemB)
               THEN IF ~comparePrimitives(itemA, itemB, context.options.enableTypeCoercion)
                    THEN Return(FALSE)
                    ELSE Goto([Top EXCEPT !.i = i + 1])
               ELSE IF /\ ~NotObjectOrNull(itemA) /\ ~IsArray(itemA)
                       /\ ~NotObjectOrNull(itemB) /\ ~IsArray(itemB)
                       /\ context.depth < context.options.maxDepth
                 THEN Push([Top EXCEPT !.pc = "internalDiff"],
                           Frame("internalDiff", itemA, itemB,
                                 [context EXCEPT
                                    !.depth = context.depth + 1,
                                    !.path = Append(context.path, NumberToString(i))]))
               ELSE Return(FALSE)

AtArrayItemTurn == Running("compareArrays", {"loop"})

ArrayItemTurn == AtArrayItemTurn /\ Become(ArrayItemTurnOutcome)

\* the loop of compareArrays after internalDiff has returned
ArrayItemResumeOutcome ==
  LET diffResult == Top.ret
  IN  IF \/ SlotKeysThrows(diffResult.additions)
         \/ SlotKeysThrows(diffResult.deletions)
         \/ SlotKeysThrows(diffResult.updates)
      THEN Throw
      ELSE IF \/ ObjectKeysLength(diffResult.additions) > 0
              \/ ObjectKeysLength(diffResult.deletions) > 0
              \/ ObjectKeysLength(diffResult.updates) > 0
        THEN Return(FALSE)
      ELSE Goto([Top EXCEPT !.pc = "loop", !.i = Top.i + 1])

AtArrayItemResume == Running("compareArrays", {"internalDiff"})

ArrayItemResume == AtArrayItemResume /\ Become(ArrayItemResumeOutcome)

\* objects with an object, an array of objects or nothing under u, and a scalar under a
StepObjects(ref, scalars) ==
  ObjectsFrom(k_u :> { Absent,
                       Obj(k_a :> Num(30) @@ k_i :> Num(30), ref),
                       Obj(k_b :> Str(S_30) @@ k_i :> Num(1), ref),
                       Arr(<<Obj(k_a :> Num(30), ref), DateOf(T_2023_01, ref)>>, ref),
                       Arr(<<Null, Num(30)>>, ref) } @@
              k_a :> ({Absent} \cup scalars), ref)

StepOptions ==
  { <<>>,
    [maxDepth |-> 0],
    [ignoreProperties |-> <<P_u_star>>, arrayOrderMatters |-> FALSE],
    [ignoreProperties |-> <<P_i>>, enableTypeCoercion |-> FALSE, maxDepth |-> 1] }

CallOnTopLevel ==
  /\ call = "none"
  /\ \E a \in TopValues(RefA), b \in TopValues(RefB), o \in {<<>>, [maxDepth |-> 0]} :
       CallDiff(a, b, o)

CallOnObjects ==
  /\ call = "none"
  /\ \E a \in StepObjects(RefA, {Num(30), Null}), b \in StepObjects(RefB, {Num(30), Str(S_30)}),
        o \in StepOptions :
       CallDiff(a, b, o)

\* nests deeper than maxDepth among them
CallOnNest ==
  /\ call = "none"
  /\ \E n \in 0..MaxNest, leaf \in {Num(30), Arr(<<Obj(k_a :> Num(30), RefA)>>, RefA)},
        o \in {<<>>, [maxDepth |-> 0], [maxDepth |-> 1]} :
       CallDiff(NestChain(n, leaf, RefA), Copy(NestChain(n, leaf, RefA), RefB), o)

NextSteps ==
  \/ CallOnTopLevel
  \/ CallOnObjects
  \/ CallOnNest
  \/ InternalDiffEntry
  \/ InternalDiffResume
  \/ CompareObjectsEntry
  \/ DeletionsTurn
  \/ DeletionsEnd
  \/ AdditionsTurn
  \/ AdditionsResume
  \/ AdditionsEnd
  \/ CompareArraysEntry
  \/ ArrayItemTurn
  \/ ArrayItemResume

\* diff is a synchronous function: once called it runs on until it returns or throws
SpecSteps == Init /\ [][NextSteps]_vars /\ WF_vars(NextSteps)

(***************************************************************************)
(* What the claims speak of                                                *)
(***************************************************************************)
\* the options of the call in force, defaults filled in
Opt == MergeOptions(options)

NoIgnorePatterns == Len(Opt.ignoreProperties) = 0

IsPrimitive(v) == v.t \in {"null", "undefined", "number", "string", "boolean"}

\* a plain object whose fields all hold primitives
FlatObject(v) == isPlainObject(v) /\ \A key \in DOMAIN v.fields : IsPrimitive(v.fields[key])

DiffOfObjects == call = "diff" /\ isPlainObject(objectA) /\ isPlainObject(objectB)

ResultKeys == DOMAIN result.additions.m \cup DOMAIN result.deletions.m \cup DOMAIN result.updates.m

(***************************************************************************)
(* C2 -- Flat classification: for two plain objects with primitive field   *)
(* values and no ignore patterns, additions are exactly the keys of B not  *)
(* in A with B's value, deletions exactly the keys of A not in B with A's  *)
(* value, updates exactly the keys in both with unequal values, as         *)
(* {from, to}; equal keys are in no map.                                   *)
(***************************************************************************)
C2_FlatClassification ==
  (DiffOfObjects /\ FlatObject(objectA) /\ FlatObject(objectB) /\ NoIgnorePatterns) =>
    LET fa == objectA.fields
        fb == objectB.fields
        unequal == {key \in DOMAIN fa \cap DOMAIN fb :
                      ~comparePrimitives(fa[key], fb[key], Opt.enableTypeCoercion)}
    IN  /\ result.additions = MapOf([key \in DOMAIN fb \ DOMAIN fa |-> Whole(fb[key])])
        /\ result.deletions = MapOf([key \in DOMAIN fa \ DOMAIN fb |-> Whole(fa[key])])
        /\ result.updates = MapOf([key \in unequal |-> FromTo(fa[key], fb[key])])

(***************************************************************************)
(* C7 -- Coercion toggle: for a key both objects hold with scalar values   *)
(* of different types, with enableTypeCoercion true or omitted the key is  *)
(* in no map whenever the coercion rules declare the pair equal (30 and    *)
(* "30", true and "true", a date and a string of the same instant); with   *)
(* enableTypeCoercion false every pair that is not strictly identical      *)
(* gives updates[key] = {from, to}.                                        *)
(***************************************************************************)
IsScalar(v) == IsPrimitive(v) \/ v.t = "date"

\* the pairs the claim names as equal under coercion
NamedCoerciblePair(a, b) ==
  \/ a = Num(30) /\ b = Str(S_30)
  \/ a = Bool(TRUE) /\ b = Str(S_true)
  \/ a.t = "date" /\ a.time = T_2023_01 /\ b = Str(S_2023)

C9_CoercionSymmetry ==
  call = "comparePrimitives" =>
    /\ coerceValues(objectA, objectB).areEqual = coerceValues(objectB, objectA).areEqual
    /\ result = comparePrimitives(objectB, objectA, options.enableTypeCoercion)

\* a numeric string against its number, coercion on: equal
C9_Witness ==
  /\ call = "comparePrimitives"
  /\ objectA = Str(S_30)
  /\ objectB = Num(30)
  /\ options.enableTypeCoercion
  /\ result = TRUE
(***************************************************************************)
(* C1 -- Identity: for every value built from null, numbers, strings,      *)
(* booleans, dates, plain objects and arrays, diff of the value and a      *)
(* separately built, structurally equal copy, with default options, gives  *)
(* empty additions, deletions and updates.  As claimed (dates, arrays in   *)
(* arrays and any depth of nesting included) it fails; it holds for the    *)
(* values whose every part diff compares by content.                       *)
(***************************************************************************)
\* built from null, numbers, strings, booleans, dates, plain objects and arrays
RECURSIVE JsonLike(_)
JsonLike(v) ==
  CASE v.t \in {"null", "number", "string", "boolean", "date"} -> TRUE
    [] v.t = "object" -> \A key \in DOMAIN v.fields : JsonLike(v.fields[key])
    [] v.t = "array" -> \A i \in 1..Len(v.items) : JsonLike(v.items[i])
    [] OTHER -> FALSE

DiffOfCopy ==
  /\ call = "diff"
  /\ options = <<>>
  /\ JsonLike(objectA)
  /\ objectB = Copy(objectA, RefB)

RECURSIVE ComparedByContent(_, _, _)
ComparedByContent(v, d, maxDepth) ==
  CASE IsPrimitive(v) -> TRUE
    [] v.t = "object" ->
         /\ d <= maxDepth
         /\ \A key \in DOMAIN v.fields :
              LET w == v.fields[key]
              IN  ComparedByContent(w, IF w.t = "object" THEN d + 1 ELSE d, maxDepth)
    [] v.t = "array" ->
         \A i \in 1..Len(v.items) :
           LET w == v.items[i]
           IN  /\ w.t # "array"
               /\ ComparedByContent(w, IF w.t = "object" THEN d + 1 ELSE d, maxDepth)
    [] OTHER -> FALSE

C3_FullValueReplacement ==
  call = "diff" =>
    /\ (IsNullish(objectA) /\ IsNullish(objectB)) => result = EmptyResult
    /\ (IsNullish(objectA) /\ ~IsNullish(objectB)) =>
         result = [additions |-> Whole(objectB), deletions |-> EmptyMap, updates |-> EmptyMap]
    /\ (~IsNullish(objectA) /\ IsNullish(objectB)) =>
         result = [additions |-> EmptyMap, deletions |-> Whole(objectA), updates |-> EmptyMap]

\* null against an object with an ignored key: the object is the addition, whole
C3_Witness ==
  /\ call = "diff"
  /\ objectA = Null
  /\ objectB = Obj(k_a :> Num(30) @@ k_b :> Null, RefB)
  /\ options = [ignoreProperties |-> <<k_a>>]
  /\ result.additions = Whole(objectB)

(***************************************************************************)
(* C4 -- Nested shape: when a key that is not ignored is present in both   *)
(* objects with plain-object values and depth budget remains, the nested   *)
(* comparison's additions, deletions and updates are attached as           *)
(* additions[key], deletions[key] and updates[key], each independently and *)
(* only if that nested map is non-empty; the result maps mirror the shape  *)
(* of the inputs (their keys are keys of the inputs at the same place,     *)
(* never dotted paths), and a key whose nested objects compare equal is in *)
(* none of the three maps.                                                 *)
(***************************************************************************)
ComparedNested(key) ==
  /\ DiffOfObjects
  /\ key \in DOMAIN objectA.fields \cap DOMAIN objectB.fields
  /\ isPlainObject(objectA.fields[key])
  /\ isPlainObject(objectB.fields[key])
  /\ 0 < Opt.maxDepth
  /\ ~shouldIgnoreProperty(key, Opt.ignoreProperties)

NestedComparison(key) ==
  internalDiff(objectA.fields[key], objectB.fields[key],
               [path |-> <<key>>, depth |-> 1, options |-> Opt])

\* slot[key] is the nested map when that map is non-empty, and is missing otherwise
AttachedIfNonEmpty(slot, key, nested) ==
  /\ nested.k = "map"
  /\ key \in DOMAIN slot.m <=> DOMAIN nested.m # {}
  /\ key \in DOMAIN slot.m => slot.m[key] = nested

\* the keys of a result map are keys of the compared objects, level by level
RECURSIVE Mirrors(_, _, _)
Mirrors(slot, a, b) ==
  slot.k = "map" =>
    \A key \in DOMAIN slot.m :
      /\ key \in DOMAIN a.fields \cup DOMAIN b.fields
      /\ slot.m[key].k = "map" =>
           /\ key \in DOMAIN a.fields \cap DOMAIN b.fields
           /\ Mirrors(slot.m[key], a.fields[key], b.fields[key])

C4_NestedShape ==
  DiffOfObjects =>
    /\ Mirrors(result.additions, objectA, objectB)
    /\ Mirrors(result.deletions, objectA, objectB)
    /\ Mirrors(result.updates, objectA, objectB)
    /\ \A key \in DOMAIN objectA.fields \cap DOMAIN objectB.fields :
         ComparedNested(key) =>
           LET nested == NestedComparison(key) IN
           /\ AttachedIfNonEmpty(result.additions, key, nested.additions)
           /\ AttachedIfNonEmpty(result.deletions, key, nested.deletions)
           /\ AttachedIfNonEmpty(result.updates, key, nested.updates)
           /\ nested = EmptyResult => key \notin ResultKeys

\* u gains b and changes _i: u is in additions and updates, each a nested map, not in deletions
C4_Witness ==
  /\ ComparedNested(k_u)
  /\ objectA.fields[k_u] = Obj(k_a :> Num(30) @@ k_i :> Num(30), RefA)
  /\ objectB.fields[k_u] = Obj(k_a :> Num(30) @@ k_b :> Num(30) @@ k_i :> Num(1), RefB)
  /\ k_u \in DOMAIN result.additions.m
  /\ result.additions.m[k_u] = MapOf(k_b :> Whole(Num(30)))
  /\ k_u \in DOMAIN result.updates.m
  /\ result.updates.m[k_u] = MapOf(k_i :> FromTo(Num(30), Num(1)))
  /\ k_u \notin DOMAIN result.deletions.m

(***************************************************************************)
(* C5 -- Key partition: for any two plain objects and any options, at      *)
(* every nesting level of the result a key has a scalar entry (a whole     *)
(* added or deleted value, or a from/to pair) in at most one of additions, *)
(* deletions and updates; a key is in more than one of the three maps only *)
(* when both inputs hold plain objects under it and each of its entries is *)
(* a nested map.                                                           *)
(***************************************************************************)
SlotKeys(slot) == IF slot.k = "map" THEN DOMAIN slot.m ELSE {}

EntriesOf(res, key) ==
  { e \in { <<"additions", res.additions>>, <<"deletions", res.deletions>>,
            <<"updates", res.updates>> } : key \in SlotKeys(e[2]) }

SubMap(slot, key) ==
  IF key \in SlotKeys(slot) /\ slot.m[key].k = "map" THEN slot.m[key] ELSE EmptyMap

RECURSIVE KeyPartition(_, _, _)
KeyPartition(res, a, b) ==
  \A key \in SlotKeys(res.additions) \cup SlotKeys(res.deletions) \cup SlotKeys(res.updates) :
    LET entries == EntriesOf(res, key)
        scalars == { e \in entries : e[2].m[key].k # "map" }
        nested == entries \ scalars
    IN  /\ Cardinality(scalars) <= 1
        /\ Cardinality(entries) > 1 => scalars = {}
        /\ nested # {} =>
             /\ key \in DOMAIN a.fields \cap DOMAIN b.fields
             /\ isPlainObject(a.fields[key])
             /\ isPlainObject(b.fields[key])
             /\ KeyPartition([additions |-> SubMap(res.additions, key),
                              deletions |-> SubMap(res.deletions, key),
                              updates |-> SubMap(res.updates, key)],
                             a.fields[key], b.fields[key])

C5_KeyPartition == DiffOfObjects => KeyPartition(result, objectA, objectB)

\* u is in all three maps, each time as a nested map; _i has one scalar entry
C5_Witness ==
  /\ DiffOfObjects
  /\ Cardinality(EntriesOf(result, k_u)) = 3
  /\ \A e \in EntriesOf(result, k_u) : e[2].m[k_u].k = "map"
  /\ Cardinality(EntriesOf(result, k_i)) = 1

(***************************************************************************)
(* C6 -- Ignore-pattern completeness.  As stated: no key whose dot-joined  *)
(* path from the root (array indices as numeric segments) matches an       *)
(* ignore pattern occurs anywhere in the returned additions, deletions or  *)
(* updates, the whole values recorded as additions or deletions and the    *)
(* from/to values of updates included.                                     *)
(***************************************************************************)
\* the paths of the keys inside a value that sits at path
RECURSIVE PathsInValue(_, _)
PathsInValue(v, path) ==
  CASE v.t = "object" ->
         UNION { {Append(path, key)} \cup PathsInValue(v.fields[key], Append(path, key)) :
                   key \in DOMAIN v.fields }
    [] v.t = "array" ->
         UNION { PathsInValue(v.items[i], Append(path, NatToString(i - 1))) :
                   i \in 1..Len(v.items) }
    [] OTHER -> {}

\* the paths of the keys of the nested maps of a result map
RECURSIVE PathsOfMapKeys(_, _)
PathsOfMapKeys(slot, path) ==
  IF slot.k = "map"
  THEN UNION { {Append(path, key)} \cup PathsOfMapKeys(slot.m[key], Append(path, key)) :
                 key \in DOMAIN slot.m }
  ELSE {}

\* the paths of the keys inside the values a result map records whole
RECURSIVE PathsInRecordedValues(_, _)
PathsInRecordedValues(slot, path) ==
  CASE slot.k = "map" ->
         UNION { PathsInRecordedValues(slot.m[key], Append(path, key)) : key \in DOMAIN slot.m }
    [] slot.k = "value" -> PathsInValue(slot.v, path)
    [] slot.k = "fromto" -> PathsInValue(slot.from, path) \cup PathsInValue(slot.to, path)

Ignored(path) == shouldIgnoreProperty(Join(path), Opt.ignoreProperties)

ResultSlots == {result.additions, result.deletions, result.updates}

C6_NoIgnoredKeyAnywhere ==
  call = "diff" =>
    \A slot \in ResultSlots :
      \A path \in PathsOfMapKeys(slot, <<>>) \cup PathsInRecordedValues(slot, <<>>) :
        ~Ignored(path)

(***************************************************************************)
(* C6, amended -- for any inputs and any ignoreProperties list, no key     *)
(* whose dot-joined path from the root matches an ignore pattern is a key  *)
(* of the returned additions, deletions or updates or of a nested map in   *)
(* them, whatever the two inputs hold at that path.                        *)
(***************************************************************************)
C6_NoIgnoredKeyInMaps ==
  call = "diff" =>
    \A slot \in ResultSlots : \A path \in PathsOfMapKeys(slot, <<>>) : ~Ignored(path)

\* u._i is ignored and differs, u.a differs too: the result has u.a and not u._i
C6_Witness ==
  /\ DiffOfObjects
  /\ options = [ignoreProperties |-> <<P_u_i>>]
  /\ objectA.fields = (k_u :> Obj(k_a :> Num(30) @@ k_i :> Num(30), RefA))
  /\ objectB.fields = (k_u :> Obj(k_i :> Num(1), RefB))
  /\ result = [additions |-> EmptyMap,
               deletions |-> MapOf(k_u :> MapOf(k_a :> Whole(Num(30)))),
               updates |-> EmptyMap]

(***************************************************************************)
(* C8 -- Order-insensitive arrays: for every array arr of primitives       *)
(* (numbers, strings, booleans, null, in any mixture) and every            *)
(* permutation p of arr, diff({x: arr}, {x: p(arr)},                       *)
(* {arrayOrderMatters: false}) returns three empty maps, for either        *)
(* setting of enableTypeCoercion.                                          *)
(***************************************************************************)
IsArrayOfPrimitives(v) ==
  /\ IsArray(v)
  /\ \A i \in 1..Len(v.items) : v.items[i].t \in {"number", "string", "boolean", "null"}

DiffOfPermutation ==
  /\ call = "diff"
  /\ Opt.arrayOrderMatters = FALSE
  /\ isPlainObject(objectA)
  /\ isPlainObject(objectB)
  /\ DOMAIN objectA.fields = {k_x}
  /\ DOMAIN objectB.fields = {k_x}
  /\ IsArrayOfPrimitives(objectA.fields[k_x])
  /\ IsArray(objectB.fields[k_x])
  /\ objectB.fields[k_x].items \in Rearrangements(objectA.fields[k_x].items)

C8_OrderInsensitiveArrays == DiffOfPermutation => result = EmptyResult

(***************************************************************************)
(* C10 -- Totality and termination: for every pair of acyclic JSON-like    *)
(* values (null and absent at top level and objects nested deeper than     *)
(* maxDepth among them) and every options value with an integer maxDepth   *)
(* >= 0, a call of diff terminates, reaches no error outcome and returns a *)
(* result with the three fields additions, deletions and updates; the same *)
(* inputs and options always give the same result, in whatever order the   *)
(* keys are visited.  Termination is by a variant: a running call has a    *)
(* step to take, and whichever step it takes lowers a natural number.  The *)
(* call                                                                    *)
(* never has more than 3 * (maxDepth + 1) activations at once.             *)
(***************************************************************************)
Returned == call = "diff"

RECURSIVE SumOver(_, _)
SumOver(f, S) ==
  IF S = {} THEN 0 ELSE LET x == CHOOSE y \in S : TRUE IN f[x] + SumOver(f, S \ {x})

\* a bound on the steps of internalDiff(a, b) and of the calls it makes
RECURSIVE StepsOf(_, _)
StepsOfKeys(a, b, keys) ==
  SumOver([key \in keys |->
             2 + IF key \in DOMAIN a.fields THEN StepsOf(a.fields[key], b.fields[key]) ELSE 0],
          keys)

StepsOfItems(a, b, i) ==
  SumOver([j \in (i + 1)..Len(a.items) |->
             2 + IF j <= Len(b.items) THEN StepsOf(a.items[j], b.items[j]) ELSE 0],
          (i + 1)..Len(a.items))

StepsOf(a, b) ==
  IF a.t = "object" /\ b.t = "object"
  THEN 5 + Cardinality(DOMAIN a.fields) + StepsOfKeys(a, b, DOMAIN b.fields)
  ELSE IF a.t = "array" /\ b.t = "array"
    THEN 4 + StepsOfItems(a, b, 0)
  ELSE 2

\* a bound on the steps an activation has still to take, the calls it has still to make included
StepsLeft(frame) ==
  LET a == frame.objA
      b == frame.objB
  IN  CASE frame.fn = "internalDiff" ->
             IF frame.pc = "entry" THEN StepsOf(a, b) ELSE 1
        [] frame.fn = "compareObjects" ->
             CASE frame.pc = "entry" ->
                    3 + Cardinality(DOMAIN a.fields) + StepsOfKeys(a, b, DOMAIN b.fields)
               [] frame.pc = "deletions" ->
                    2 + Cardinality(frame.keys) + StepsOfKeys(a, b, DOMAIN b.fields)
               [] frame.pc = "additions" -> 1 + StepsOfKeys(a, b, frame.keys)
               [] OTHER -> 2 + StepsOfKeys(a, b, frame.keys)
        [] frame.fn = "compareArrays" ->
             CASE frame.pc = "entry" -> 2 + StepsOfItems(a, b, 0)
               [] frame.pc = "loop" -> 1 + StepsOfItems(a, b, frame.i)
               [] OTHER -> 2 + StepsOfItems(a, b, frame.i + 1)

\* the variant of the call: a natural number that every step lowers
Measure(stk) == SumOver([n \in 1..Len(stk) |-> StepsLeft(stk[n])], 1..Len(stk))

Lowers(outcome) == Measure(outcome.stack) < Measure(stack)

\* a running call has a step to take, and whichever step it takes lowers the variant
EveryStepLowers ==
  CASE AtInternalDiffEntry -> Lowers(InternalDiffEntryOutcome)
    [] AtInternalDiffResume -> Lowers(InternalDiffResumeOutcome)
    [] AtCompareObjectsEntry -> Lowers(CompareObjectsEntryOutcome)
    [] AtDeletionsTurn -> \A key \in Top.keys : Lowers(DeletionsTurnOutcome(key))
    [] AtDeletionsEnd -> Lowers(DeletionsEndOutcome)
    [] AtAdditionsTurn -> \A key \in Top.keys : Lowers(AdditionsTurnOutcome(key))
    [] AtAdditionsResume -> Lowers(AdditionsResumeOutcome)
    [] AtAdditionsEnd -> Lowers(AdditionsEndOutcome)
    [] AtCompareArraysEntry -> Lowers(CompareArraysEntryOutcome)
    [] AtArrayItemTurn -> Lowers(ArrayItemTurnOutcome)
    [] AtArrayItemResume -> Lowers(ArrayItemResumeOutcome)
    [] OTHER -> FALSE

C10_TotalityAndTermination ==
  /\ call # "error"
  /\ call = "running" => EveryStepLowers
  /\ Returned => /\ DOMAIN result = {"additions", "deletions", "updates"}
                 /\ result = diff(objectA, objectB, options)
  /\ Len(stack) <= 3 * (Opt.maxDepth + 1)

\* objects four deep, copied, with maxDepth 1: diff has returned, with an update at the limit
C10_Witness ==
  /\ Returned
  /\ stack = <<>>
  /\ objectA = NestChain(3, Num(30), RefA)
  /\ options = [maxDepth |-> 1]
  /\ result = [additions |-> EmptyMap,
               deletions |-> EmptyMap,
               updates |-> MapOf(k_a :> MapOf(k_a :>
                             FromTo(NestChain(1, Num(30), RefA), NestChain(1, Num(30), RefB))))]

(***************************************************************************)
(* C11 -- Inputs unchanged: a call of diff, for any inputs and any options *)
(* (arrayOrderMatters false, where arrays are sorted to be compared,       *)
(* included), leaves both arguments and every object and array nested in   *)
(* them, element order included, the caller's options and the list of      *)
(* ignore patterns in them unchanged: no step of the call sorts or assigns *)
(* into anything but the objects the call itself has made.                 *)
(***************************************************************************)
\* what a step holds of P, whichever step the running call takes
EveryStep(P(_)) ==
  CASE AtInternalDiffEntry -> P(InternalDiffEntryOutcome)
    [] AtInternalDiffResume -> P(InternalDiffResumeOutcome)
    [] AtCompareObjectsEntry -> P(CompareObjectsEntryOutcome)
    [] AtDeletionsTurn -> \A key \in Top.keys : P(DeletionsTurnOutcome(key))
    [] AtDeletionsEnd -> P(DeletionsEndOutcome)
    [] AtAdditionsTurn -> \A key \in Top.keys : P(AdditionsTurnOutcome(key))
    [] AtAdditionsResume -> P(AdditionsResumeOutcome)
    [] AtAdditionsEnd -> P(AdditionsEndOutcome)
    [] AtCompareArraysEntry -> P(CompareArraysEntryOutcome)
    [] AtArrayItemTurn -> P(ArrayItemTurnOutcome)
    [] AtArrayItemResume -> P(ArrayItemResumeOutcome)
    [] OTHER -> FALSE

\* the object an assignment into a slot of a result writes to: the map the call made
\* for it, or the value the slot has been set to
StoreTarget(slot) ==
  CASE slot.k \in {"map", "fromto"} -> "result"
    [] slot.k = "value" /\ slot.v.t \in {"object", "array", "date"} -> slot.v.ref
    [] OTHER -> "primitive"

\* the slots of the running activation's result that a step assigns into
AssignedSlots(outcome) ==
  IF Len(outcome.stack) >= Len(stack)
  THEN { Top.result[f] : f \in { g \in {"additions", "deletions", "updates"} :
                                  outcome.stack[Len(stack)].result[g] # Top.result[g] } }
  ELSE {}

\* the objects a step writes to
Written(outcome) ==
  {StoreTarget(slot) : slot \in AssignedSlots(outcome)}
    \cup {s.array.ref : s \in outcome.sorted}

LeavesInputs(outcome) ==
  /\ InputAfter(objectA, RefA, outcome) = objectA
  /\ InputAfter(objectB, RefB, outcome) = objectB
  /\ Written(outcome) \subseteq {"result", "copy"}

C11_InputsUnchanged == call = "running" => EveryStep(LeavesInputs)

\* an unsorted array under u on both sides has been sorted to be compared, and is as it was
C11_Witness ==
  /\ Returned
  /\ Opt.arrayOrderMatters = FALSE
  /\ isPlainObject(objectA)
  /\ isPlainObject(objectB)
  /\ k_u \in DOMAIN objectA.fields \cap DOMAIN objectB.fields
  /\ objectA.fields[k_u] = Arr(<<Null, Num(30)>>, RefA)
  /\ objectB.fields[k_u] = Arr(<<Null, Num(30)>>, RefB)
  /\ Sort(objectA.fields[k_u].items) # objectA.fields[k_u].items
  /\ result.updates = EmptyMap

(***************************************************************************)
(* C12 -- README Quick Start: with default options, diff of the Quick      *)
(* Start's objectA and objectB returns additions = {profile: {phone}},     *)
(* deletions = {} and updates = {age: {from: 30, to: 31}, profile:         *)
(* {active: {from: true, to: 'true'}}}: the nested boolean true against    *)
(* the string 'true' is reported as an update.                             *)
(***************************************************************************)
QuickStartOutput ==
  [ additions |-> MapOf(k_profile :> MapOf(k_phone :> Whole(Str(S_phone)))),
    deletions |-> EmptyMap,
    updates |-> MapOf(k_age :> FromTo(Num(30), Num(31)) @@
                      k_profile :> MapOf(k_active :> FromTo(Bool(TRUE), Str(S_true)))) ]

DiffOfQuickStart == call = "diff" /\ objectA = QuickStartA /\ objectB = QuickStartB

FieldWise(res, key, a, b) ==
  /\ \A name \in DOMAIN a.fields \ (DOMAIN b.fields \cup ObjectPrototypeKeys) :
       /\ name \in SlotKeys(SubMap(res.deletions, key))
       /\ SubMap(res.deletions, key).m[name] = Whole(a.fields[name])
  /\ \A name \in DOMAIN b.fields \ (DOMAIN a.fields \cup ObjectPrototypeKeys) :
       /\ name \in SlotKeys(SubMap(res.additions, key))
       /\ SubMap(res.additions, key).m[name] = Whole(b.fields[name])
  /\ \A name \in DOMAIN a.fields \cap DOMAIN b.fields :
       /\ IsPrimitive(a.fields[name]) /\ a.fields[name] = b.fields[name] =>
            /\ name \notin SlotKeys(SubMap(res.updates, key))
            /\ name \notin SlotKeys(SubMap(res.additions, key))
            /\ name \notin SlotKeys(SubMap(res.deletions, key))
       /\ a.fields[name].t = "number" /\ b.fields[name].t = "number"
            /\ a.fields[name] # b.fields[name] =>
            /\ name \in SlotKeys(SubMap(res.updates, key))
            /\ SubMap(res.updates, key).m[name] = FromTo(a.fields[name], b.fields[name])
  /\ key \in SlotKeys(res.updates) => res.updates.m[key].k = "map"
  /\ key \in SlotKeys(res.additions) => res.additions.m[key].k = "map"
  /\ key \in SlotKeys(res.deletions) => res.deletions.m[key].k = "map"

\* the pair a, b under key is reported as one value replaced by another
Opaque(res, key, a, b) ==
  /\ key \in SlotKeys(res.updates)
  /\ res.updates.m[key] = FromTo(a, b)
  /\ key \notin SlotKeys(res.additions)
  /\ key \notin SlotKeys(res.deletions)

\* the three maps one key further down
Below(res, key) ==
  [ additions |-> SubMap(res.additions, key),
    deletions |-> SubMap(res.deletions, key),
    updates |-> SubMap(res.updates, key) ]

\* a and b are compared field-wise, k keys below the top; res holds their three maps
RECURSIVE DepthBoundary(_, _, _, _, _)
DepthBoundary(res, a, b, k, d) ==
  \A key \in DOMAIN a.fields \cap DOMAIN b.fields :
    (isPlainObject(a.fields[key]) /\ isPlainObject(b.fields[key])) =>
      IF k + 1 <= d
      THEN /\ FieldWise(res, key, a.fields[key], b.fields[key])
           /\ DepthBoundary(Below(res, key), a.fields[key], b.fields[key], k + 1, d)
      ELSE a.fields[key] # b.fields[key] => Opaque(res, key, a.fields[key], b.fields[key])

\* an array pair of one length that holds a plain object on both sides at some index
HoldsObjectPair(a, b) ==
  /\ IsArray(a)
  /\ IsArray(b)
  /\ Len(a.items) = Len(b.items)
  /\ \E i \in 1..Len(a.items) : isPlainObject(a.items[i]) /\ isPlainObject(b.items[i])

\* with maxDepth 0 an array pair holding an object pair is unequal without a look inside
NoDescentAtZero ==
  Opt.maxDepth = 0 =>
    /\ HoldsObjectPair(objectA, objectB) => result.updates = FromTo(objectA, objectB)
    /\ DiffOfObjects =>
         \A key \in DOMAIN objectA.fields \cap DOMAIN objectB.fields :
           HoldsObjectPair(objectA.fields[key], objectB.fields[key]) =>
             Opaque(result, key, objectA.fields[key], objectB.fields[key])

C13_DepthBoundary ==
  /\ (DiffOfObjects /\ NoIgnorePatterns) =>
       DepthBoundary(result, objectA, objectB, 0, Opt.maxDepth)
  /\ call = "diff" => NoDescentAtZero

\* eleven keys down with the default maxDepth 10: the copy is reported as an update
C13_Witness ==
  /\ DiffOfObjects
  /\ options = <<>>
  /\ objectA = NestChain(MaxNest, Num(30), RefA)
  /\ objectB = NestChain(MaxNest, Num(30), RefB)
  /\ result.updates # EmptyMap
  /\ result.additions = EmptyMap

\* one key down with maxDepth 1: the nested pair is reported field by field
C13_WitnessWithin ==
  /\ DiffOfObjects
  /\ Opt.maxDepth = 1
  /\ NoIgnorePatterns
  /\ k_u \in DOMAIN objectA.fields \cap DOMAIN objectB.fields
  /\ isPlainObject(objectA.fields[k_u])
  /\ isPlainObject(objectB.fields[k_u])
  /\ k_u \in SlotKeys(result.additions)
  /\ k_u \in SlotKeys(result.deletions)

(***************************************************************************)
(* C14 -- Array field depth: when a key present in both objects holds an   *)
(* array on both sides, array equality is evaluated with the depth counter *)
(* set to the containing object's depth + 1 and the path extended by the   *)
(* key; the elements of an array field of an object at depth n are thus    *)
(* compared with depth n + 1, and plain-object elements are recursed into  *)
(* only if n + 1 < maxDepth.                                               *)
(***************************************************************************)
\* the activations of compareArrays that compareObjects has made for a key
ArrayFieldFrames ==
  { i \in 2..Len(stack) : stack[i].fn = "compareArrays" /\ stack[i - 1].fn = "compareObjects" }

\* the activation at i is comparing an element pair by internalDiff
RecursingIntoElement(i) == i < Len(stack) /\ stack[i + 1].fn = "internalDiff"

\* the array under a key is compared at depth n + more, n being the depth of the object
ArrayFieldComparedAt(more) ==
  \A i \in ArrayFieldFrames :
    LET object == stack[i - 1]
        array == stack[i]
    IN  /\ array.context.depth = object.context.depth + more
        /\ array.context.path = Append(object.context.path, object.key)
        /\ array.objA = Get(object.objA, object.key)
        /\ array.objB = Get(object.objB, object.key)
        /\ RecursingIntoElement(i) =>
             object.context.depth + more < array.context.options.maxDepth

C14_ArrayFieldDepth == call = "running" => ArrayFieldComparedAt(1)

(***************************************************************************)
(* C14, amended -- when a key present in both objects holds an array on    *)
(* both sides, array equality is evaluated with the depth counter of the   *)
(* containing object unchanged and the path extended by the key; the       *)
(* elements of an array field of an object at depth n are compared with    *)
(* depth n, plain-object elements are recursed into only if n < maxDepth,  *)
(* and that recursion runs at depth n + 1 with the index added to the path.*)
(***************************************************************************)
C14_ArrayFieldKeepsDepth ==
  call = "running" =>
    /\ ArrayFieldComparedAt(0)
    /\ \A i \in ArrayFieldFrames :
         RecursingIntoElement(i) =>
           /\ stack[i + 1].context.depth = stack[i - 1].context.depth + 1
           /\ stack[i + 1].context.path =
                Append(stack[i].context.path, NumberToString(stack[i].i))

\* maxDepth 1: the object in the array under a of the top-level object is being compared
C14_Witness ==
  /\ call = "running"
  /\ Len(stack) = 5
  /\ 3 \in ArrayFieldFrames
  /\ RecursingIntoElement(3)
  /\ stack[2].context.depth = 0
  /\ stack[3].context.options.maxDepth = 1
  /\ isPlainObject(stack[4].objA)
  /\ isPlainObject(stack[4].objB)
  /\ stack[5].fn = "compareObjects"

(***************************************************************************)
(* C15 -- Top-level type mismatch: when both top-level arguments are       *)
(* non-null and their typeof differ, diff returns updates = {from: a,      *)
(* to: b} with empty additions and deletions, for either setting of        *)
(* enableTypeCoercion, even for pairs the coercion rules would declare     *)
(* equal (30 and "30"); coercion is only applied to field values and array *)
(* elements.                                                               *)
(***************************************************************************)
TopLevelMismatch ==
  /\ call = "diff"
  /\ ~IsNullish(objectA)
  /\ ~IsNullish(objectB)
  /\ TypeOf(objectA) # TypeOf(objectB)

\* two top-level values that are neither arrays nor plain objects, of one typeof
TopLevelSameKind ==
  /\ call = "diff"
  /\ ~IsNullish(objectA)
  /\ ~IsNullish(objectB)
  /\ TypeOf(objectA) = TypeOf(objectB)
  /\ ~IsArray(objectA) /\ ~isPlainObject(objectA)
  /\ ~IsArray(objectB) /\ ~isPlainObject(objectB)

C15_TopLevelTypeMismatch ==
  /\ TopLevelMismatch => result = [EmptyResult EXCEPT !.updates = FromTo(objectA, objectB)]
  /\ TopLevelSameKind =>
       result = IF StrictEquals(objectA, objectB)
                THEN EmptyResult
                ELSE [EmptyResult EXCEPT !.updates = FromTo(objectA, objectB)]

\* 30 against "30" with coercion enabled, a pair equal as field values
C15_Witness ==
  /\ TopLevelMismatch
  /\ objectA = Num(30)
  /\ objectB = Str(S_30)
  /\ Opt.enableTypeCoercion
  /\ comparePrimitives(objectA, objectB, TRUE)
  /\ result.updates = FromTo(Num(30), Str(S_30))

(***************************************************************************)
(* C16 -- Array differences are whole-value updates: for a key present in  *)
(* both objects whose values are both arrays, arrays of different length   *)
(* or differing at any position (under order-sensitive comparison) produce *)
(* exactly one entry updates[key] = {from: the whole array of A, to: the   *)
(* whole array of B} and no entry for that key in additions or deletions;  *)
(* equal-length arrays whose elements are pairwise equal (two empty arrays *)
(* included) produce no entry; no per-element detail is ever produced.     *)
(* Elements are equal as primitives under the coercion setting, or as      *)
(* plain objects of primitives with the same fields when maxDepth allows   *)
(* the comparison; the key is one no ignore pattern matches.               *)
(***************************************************************************)
ArrayField(key) ==
  /\ DiffOfObjects
  /\ key \in DOMAIN objectA.fields \cap DOMAIN objectB.fields
  /\ IsArray(objectA.fields[key])
  /\ IsArray(objectB.fields[key])
  /\ ~shouldIgnoreProperty(key, Opt.ignoreProperties)

\* every element of both arrays is a primitive
PrimitiveItems(key) ==
  /\ \A i \in 1..Len(objectA.fields[key].items) : IsPrimitive(objectA.fields[key].items[i])
  /\ \A i \in 1..Len(objectB.fields[key].items) : IsPrimitive(objectB.fields[key].items[i])

\* the two elements are equal: as primitives, or as objects of primitives within maxDepth
EqualItems(itemA, itemB) ==
  \/ /\ IsPrimitive(itemA)
     /\ IsPrimitive(itemB)
     /\ comparePrimitives(itemA, itemB, Opt.enableTypeCoercion)
  \/ /\ FlatObject(itemA)
     /\ FlatObject(itemB)
     /\ itemA.fields = itemB.fields
     /\ 0 < Opt.maxDepth

PairwiseEqual(key) ==
  /\ Len(objectA.fields[key].items) = Len(objectB.fields[key].items)
  /\ \A i \in 1..Len(objectA.fields[key].items) :
       EqualItems(objectA.fields[key].items[i], objectB.fields[key].items[i])

\* the one entry an unequal array pair gets
WholeArrayUpdate(key) ==
  /\ key \in DOMAIN result.updates.m
  /\ result.updates.m[key] = FromTo(objectA.fields[key], objectB.fields[key])
  /\ key \notin DOMAIN result.additions.m
  /\ key \notin DOMAIN result.deletions.m

IsNumericLiteral(s) == Trim(s) # <<>> /\ ~isNaN(StringToNumber(s))

\* the number n and the string s are equal as the claim has it
LiteralOf(n, s) == IsNumericLiteral(s) /\ StringToNumber(s).n = n

NumberAgainstString ==
  /\ call = "comparePrimitives"
  /\ options.enableTypeCoercion
  /\ \/ objectA.t = "number" /\ objectB.t = "string"
     \/ objectA.t = "string" /\ objectB.t = "number"

C17_NumberStringCoercion ==
  NumberAgainstString =>
    /\ result \in BOOLEAN
    /\ result = IF objectA.t = "number"
                THEN LiteralOf(objectA.n, objectB.s)
                ELSE LiteralOf(objectB.n, objectA.s)

\* the same with the empty and blank strings left out: what the code does
C17_NonBlankStrings ==
  (NumberAgainstString /\ Trim((IF objectA.t = "string" THEN objectA ELSE objectB).s) # <<>>) =>
    result = IF objectA.t = "number"
             THEN LiteralOf(objectA.n, objectB.s)
             ELSE LiteralOf(objectB.n, objectA.s)

\* 0 against the empty string, and against a blank one, are equal
C17_BlankIsZero ==
  (NumberAgainstString /\ Trim((IF objectA.t = "string" THEN objectA ELSE objectB).s) = <<>>) =>
    result = ((IF objectA.t = "number" THEN objectA ELSE objectB).n = 0)

(***************************************************************************)
(* C18 -- Traversal-context invariant: in every recursive step of one diff *)
(* call with maxDepth >= 0, the depth counter satisfies 0 <= depth <=      *)
(* maxDepth and depth <= length of the current path; depth grows by        *)
(* exactly 1 on each descent into a nested plain object or into a          *)
(* plain-object array element, stays the same when an array field is       *)
(* entered, and the resolved options are the same unchanged value in every *)
(* step.                                                                   *)
(***************************************************************************)
ContextInRange(context) ==
  /\ 0 <= context.depth
  /\ context.depth <= context.options.maxDepth
  /\ context.depth <= Len(context.path)
  /\ context.options = Opt

\* the context callee was given by the activation caller below it
ContextHandedOn(caller, callee) ==
  CASE caller.fn = "internalDiff" ->
         callee.context = caller.context
    [] caller.fn = "compareObjects" /\ callee.fn = "internalDiff" ->
         /\ isPlainObject(callee.objA)
         /\ isPlainObject(callee.objB)
         /\ callee.context.depth = caller.context.depth + 1
         /\ callee.context.path = Append(caller.context.path, caller.key)
    [] caller.fn = "compareObjects" /\ callee.fn = "compareArrays" ->
         /\ callee.context.depth = caller.context.depth
         /\ callee.context.path = Append(caller.context.path, caller.key)
    [] caller.fn = "compareArrays" /\ callee.fn = "internalDiff" ->
         /\ callee.context.depth = caller.context.depth + 1
         /\ callee.context.path = Append(caller.context.path, NumberToString(caller.i))
    [] OTHER -> FALSE

C18_TraversalContext ==
  call = "running" =>
    /\ \A i \in 1..Len(stack) : ContextInRange(stack[i].context)
    /\ stack # <<>> => stack[1].context = [path |-> <<>>, depth |-> 0, options |-> Opt]
    /\ \A i \in 1..(Len(stack) - 1) : ContextHandedOn(stack[i], stack[i + 1])

\* the object element of the array under u is entered at depth 1 = maxDepth, two keys down
C18_Witness ==
  /\ call = "running"
  /\ Len(stack) = 5
  /\ stack[3].fn = "compareArrays"
  /\ stack[3].context.depth = 0
  /\ stack[3].context.path = <<k_u>>
  /\ Top.fn = "compareObjects"
  /\ Top.context.depth = 1
  /\ Top.context.options.maxDepth = 1
  /\ Top.context.path = <<k_u, <<"0">> >>

(***************************************************************************)
(* C19 -- Swap duality: for all values a, b and all options o,             *)
(* diff(b, a, o).additions equals diff(a, b, o).deletions,                 *)
(* diff(b, a, o).deletions equals diff(a, b, o).additions, and             *)
(* diff(b, a, o).updates has the same key structure as diff(a, b,          *)
(* o).updates with from and to exchanged in every {from, to} pair.         *)
(***************************************************************************)
\* a slot of updates with from and to exchanged in every pair
RECURSIVE Exchanged(_)
Exchanged(slot) ==
  CASE slot.k = "fromto" -> FromTo(slot.to, slot.from)
    [] slot.k = "map" -> MapOf([key \in DOMAIN slot.m |-> Exchanged(slot.m[key])])
    [] OTHER -> slot

Dual(res) ==
  [ additions |-> res.deletions,
    deletions |-> res.additions,
    updates |-> Exchanged(res.updates) ]

C19_SwapDuality == call = "diff" => diff(objectB, objectA, options) = Dual(result)

\* some object compared holds, at any level, a key that Object.prototype defines
RECURSIVE HoldsPrototypeKey(_)
HoldsPrototypeKey(v) ==
  CASE v.t = "object" ->
         \/ DOMAIN v.fields \cap ObjectPrototypeKeys # {}
         \/ \E key \in DOMAIN v.fields : HoldsPrototypeKey(v.fields[key])
    [] v.t = "array" -> \E i \in 1..Len(v.items) : HoldsPrototypeKey(v.items[i])
    [] OTHER -> FALSE

\* the duality on inputs without such keys
C19_SwapDualityOwnKeys ==
  (call = "diff" /\ ~HoldsPrototypeKey(objectA) /\ ~HoldsPrototypeKey(objectB)) =>
    diff(objectB, objectA, options) = Dual(result)

(***************************************************************************)
(* C20 -- Bare-name ignore patterns: an ignore pattern containing neither  *)
(* '*' nor '.' excludes only the top-level key of that exact name; a key   *)
(* of the same name nested under any other key (path length >= 2) is still *)
(* compared and reported.  A pattern containing '*' is matched as an       *)
(* anchored glob against the full dot-joined path in which '*' matches any *)
(* substring, dots included, and a pattern containing both '*' and '.' is  *)
(* matched only as a glob, never as a prefix.                              *)
(***************************************************************************)
\* s is pattern with each * replaced by some string
RECURSIVE GlobMatch(_, _)
GlobMatch(pattern, s) ==
  IF pattern = <<>> THEN s = <<>>
  ELSE IF Head(pattern) = "*"
    THEN \/ GlobMatch(Tail(pattern), s)
         \/ s # <<>> /\ GlobMatch(pattern, Tail(s))
  ELSE s # <<>> /\ Head(s) = Head(pattern) /\ GlobMatch(Tail(pattern), Tail(s))

BareName(pattern) == ~Includes(pattern, "*") /\ ~Includes(pattern, ".")

\* what one pattern excludes, for a bare name and for a pattern with a star
Excludes(pattern, propertyPath) ==
  IF BareName(pattern) THEN propertyPath = pattern ELSE GlobMatch(pattern, propertyPath)

IgnoreCall ==
  /\ call = "shouldIgnoreProperty"
  /\ \A i \in 1..Len(options.ignoreProperties) :
       BareName(options.ignoreProperties[i]) \/ Includes(options.ignoreProperties[i], "*")

\* the numbers under _i inside u differ and u is compared field by field
NestedNameDiffers ==
  /\ DiffOfObjects
  /\ 0 < Opt.maxDepth
  /\ k_u \in DOMAIN objectA.fields \cap DOMAIN objectB.fields
  /\ isPlainObject(objectA.fields[k_u])
  /\ isPlainObject(objectB.fields[k_u])
  /\ k_i \in DOMAIN objectA.fields[k_u].fields \cap DOMAIN objectB.fields[k_u].fields
  /\ objectA.fields[k_u].fields[k_i] # objectB.fields[k_u].fields[k_i]

C20_WitnessGlob ==
  /\ IgnoreCall
  /\ options.ignoreProperties = << P_star_i >>
  /\ objectA.s = <<"*", ".", "_", "i", ".", "a">>
  /\ result = FALSE
====
